---- MODULE Spec2Model ----
(***************************************************************************)
(* Financial content access-control filter of the enterprise document      *)
(* chatbot: query analysis (pattern library, optional classifier), the     *)
(* policy decision engine, the redaction pass, audit logging and the chat  *)
(* orchestrator's use of them.                                             *)
(*                                                                         *)
(* Texts are sequences of one-character strings.  The regular expressions  *)
(* of the source are written as syntax trees and matched by a backtracking *)
(* matcher with the semantics of Python's re module (leftmost match,       *)
(* greedy quantifiers, ordered alternation).                               *)
(***************************************************************************)
EXTENDS Integers, Sequences, FiniteSets, TLC

(***************************************************************************)
(* Characters and strings                                                  *)
(***************************************************************************)

\* str -> list of characters
Chars(s) == [i \in 1..Len(s) |-> SubSeq(s, i, i)]

LowerLetters == Chars("abcdefghijklmnopqrstuvwxyz")
UpperLetters == Chars("ABCDEFGHIJKLMNOPQRSTUVWXYZ")

\* [a-z] and [A-Z] without re.IGNORECASE
LowerSet == {LowerLetters[i] : i \in 1..26}
UpperSet == {UpperLetters[i] : i \in 1..26}
\* [A-Z] or [a-z] under re.IGNORECASE
LetterSet == LowerSet \cup UpperSet
\* \d
DigitSet == {"0", "1", "2", "3", "4", "5", "6", "7", "8", "9"}
\* \s
SpaceSet == {" ", "\t", "\n"}
\* \w
WordSet == LetterSet \cup DigitSet \cup {"_"}
\* the class of the dollar, euro, pound and yen signs; the three non-ASCII signs
\* are the atoms EUR, GBP, JPY
CurrencySet == {"$", "EUR", "GBP", "JPY"}

\* str.lower() on one character
LowerMap == [c \in UpperSet |-> LowerLetters[CHOOSE i \in 1..26 : UpperLetters[i] = c]]
LowerChar(c) == IF c \in UpperSet THEN LowerMap[c] ELSE c

\* str.lower()
Lower(s) == [i \in 1..Len(s) |-> LowerChar(s[i])]

\* str.strip()
RECURSIVE LStrip(_)
LStrip(s) == IF s # <<>> /\ Head(s) \in SpaceSet THEN LStrip(Tail(s)) ELSE s
RECURSIVE RStrip(_)
RStrip(s) ==
    IF s # <<>> /\ s[Len(s)] \in SpaceSet THEN RStrip(SubSeq(s, 1, Len(s) - 1)) ELSE s
Strip(s) == LStrip(RStrip(s))

\* Python's `kw in s` on strings
Contains(s, kw) ==
    \E i \in 1..(Len(s) - Len(kw) + 1) : SubSeq(s, i, i + Len(kw) - 1) = kw

\* any(kw in s for kw in kws)
ContainsAny(s, kws) == \E k \in 1..Len(kws) : Contains(s, Chars(kws[k]))

RECURSIVE Flatten(_)
Flatten(ss) ==
    IF ss = <<>> THEN <<>>
    ELSE IF Len(ss) = 1 THEN ss[1]
    ELSE Flatten(SubSeq(ss, 1, Len(ss) \div 2))
             \o Flatten(SubSeq(ss, Len(ss) \div 2 + 1, Len(ss)))

(***************************************************************************)
(* Regular expressions (Python re)                                         *)
(***************************************************************************)

Unbounded == -1

\* literal text
Str(s) == [t |-> "str", s |-> Chars(s)]
\* character class
Set(S) == [t |-> "set", cs |-> S]
\* . (any character but newline)
AnyChar == [t |-> "any"]
\* \b
WordB == [t |-> "wordb"]
\* concatenation
Cat(rs) == [t |-> "cat", rs |-> rs]
\* ordered alternation a|b
Alt(rs) == [t |-> "alt", rs |-> rs]
\* greedy repetition r{lo,hi}
Rep(r, lo, hi) == [t |-> "rep", r |-> r, lo |-> lo, hi |-> hi]
Opt(r) == Rep(r, 0, 1)
Star(r) == Rep(r, 0, Unbounded)
Plus(r) == Rep(r, 1, Unbounded)
\* capturing group 1
Cap(r) == [t |-> "cap", r |-> r]

\* A matcher state: position of the next character, span of group 1.
MState(pos, cs, ce) == <<pos, cs, ce>>

IsWordAt(s, i) == i >= 1 /\ i <= Len(s) /\ s[i] \in WordSet

\* M(r, s, st): the states in which a match of r begun in state st can end, in the
\* order in which the backtracking matcher tries them.
RECURSIVE M(_, _, _), MCat(_, _, _, _), MAlt(_, _, _, _), MRep(_, _, _, _, _), MEach(_, _, _, _)
M(r, s, st) ==
    LET pos == st[1] IN
    CASE r.t = "str" ->
           IF pos + Len(r.s) - 1 <= Len(s) /\ SubSeq(s, pos, pos + Len(r.s) - 1) = r.s
           THEN <<MState(pos + Len(r.s), st[2], st[3])>> ELSE <<>>
      [] r.t = "set" ->
           IF pos <= Len(s) /\ s[pos] \in r.cs
           THEN <<MState(pos + 1, st[2], st[3])>> ELSE <<>>
      [] r.t = "any" ->
           IF pos <= Len(s) /\ s[pos] # "\n"
           THEN <<MState(pos + 1, st[2], st[3])>> ELSE <<>>
      [] r.t = "wordb" ->
           IF IsWordAt(s, pos - 1) # IsWordAt(s, pos) THEN <<st>> ELSE <<>>
      [] r.t = "cat" -> MCat(r.rs, 1, s, <<st>>)
      [] r.t = "alt" -> MAlt(r.rs, 1, s, st)
      [] r.t = "rep" -> MRep(r.r, r.lo, r.hi, s, st)
      [] r.t = "cap" ->
           LET ends == M(r.r, s, st)
           IN  [k \in 1..Len(ends) |-> MState(ends[k][1], pos, ends[k][1])]

\* the parts rs[i..] matched one after the other from each of the states sts
MCat(rs, i, s, sts) ==
    IF i > Len(rs) \/ sts = <<>> THEN sts
    ELSE MCat(rs, i + 1, s,
              IF Len(sts) = 1 THEN M(rs[i], s, sts[1])
              ELSE Flatten([k \in 1..Len(sts) |-> M(rs[i], s, sts[k])]))

MAlt(rs, i, s, st) ==
    IF i > Len(rs) THEN <<>> ELSE M(rs[i], s, st) \o MAlt(rs, i + 1, s, st)

\* whether the one-character pattern r matches the character at position i
MatchesAt(r, s, i) ==
    i <= Len(s) /\ (IF r.t = "set" THEN s[i] \in r.cs ELSE s[i] # "\n")

\* the number of characters from position pos on, at most limit, that the
\* one-character pattern r matches one after the other
RunLength(r, s, pos, limit) ==
    CHOOSE n \in 0..limit :
        /\ \A j \in 0..(n - 1) : MatchesAt(r, s, pos + j)
        /\ n = limit \/ ~MatchesAt(r, s, pos + n)

\* greedy: one more repetition is tried before stopping.  A repeated one-character
\* pattern matches the longest run first, then each shorter one down to lo.
MRep(r, lo, hi, s, st) ==
    IF hi = 0 THEN <<st>>
    ELSE IF r.t \in {"set", "any"}
    THEN LET limit == IF hi = Unbounded THEN Len(s) + 1 - st[1] ELSE hi
             n == RunLength(r, s, st[1], limit)
         IN  [k \in 1..(n - lo + 1) |-> MState(st[1] + n - k + 1, st[2], st[3])]
    ELSE LET once == M(r, s, st)
             more == MEach(r, <<IF lo > 0 THEN lo - 1 ELSE 0,
                                 IF hi = Unbounded THEN Unbounded ELSE hi - 1>>, s,
                           SelectSeq(once, LAMBDA x : x[1] > st[1]))
         IN  more \o (IF lo = 0 THEN <<st>> ELSE <<>>)

MEach(r, lh, s, sts) ==
    IF sts = <<>> THEN <<>>
    ELSE MRep(r, lh[1], lh[2], s, Head(sts)) \o MEach(r, lh, s, Tail(sts))

NoMatch == <<0, 0, 0, 0>>

\* pattern.search(s) from position `from`: <<start, end, group1 start, group1 end>>
\* of the leftmost match (ends are exclusive), or NoMatch.
SearchFrom(r, s, from) ==
    LET starts == {k \in from..(Len(s) + 1) : M(r, s, MState(k, 0, 0)) # <<>>}
    IN  IF starts = {} THEN NoMatch
        ELSE LET start == CHOOSE k \in starts : \A j \in starts : k <= j
                 ends == M(r, s, MState(start, 0, 0))
             IN  <<start, ends[1][1], ends[1][2], ends[1][3]>>

\* The literal texts every match of r contains: the literal parts of its top-level
\* concatenation.  A text in which one of them does not occur has no match.
Literals(r) ==
    IF r.t = "str" THEN <<r.s>>
    ELSE IF r.t = "cat"
    THEN LET lits == SelectSeq(r.rs, LAMBDA e : e.t = "str")
         IN  [k \in 1..Len(lits) |-> lits[k].s]
    ELSE <<>>

\* re.compile(p)
Compile(r) == [re |-> r, lits |-> Literals(r)]
CompileAll(rs) == [k \in 1..Len(rs) |-> Compile(rs[k])]

\* pattern.search(s)
Search(p, s) ==
    IF \A k \in 1..Len(p.lits) : Contains(s, p.lits[k])
    THEN SearchFrom(p.re, s, 1) ELSE NoMatch

\* A pattern compiled with re.IGNORECASE is written with lower-case literals and
\* classes closed under case, and searched in the lower-cased text: the spans are
\* those of the case-insensitive match in s.
ISearch(p, s) == Search(p, Lower(s))

\* bool(pattern.search(s))
Matches(r, s) == Search(r, s) # NoMatch

\* any(p.search(s) for p in ps)
AnyMatches(ps, s) == \E k \in 1..Len(ps) : Matches(ps[k], s)
IMatches(p, s) == Matches(p, Lower(s))
IAnyMatches(ps, s) == AnyMatches(ps, Lower(s))

\* match.group(0), match.group(1)
Group0(s, m) == SubSeq(s, m[1], m[2] - 1)
Group1(s, m) == SubSeq(s, m[3], m[4] - 1)

\* pattern.sub(repl, s): every non-overlapping match, found left to right, is
\* replaced by repl; l is the text the matches are searched in (s, or s in lower
\* case).  None of the patterns of this program matches the empty string.
RECURSIVE SubFrom(_, _, _, _, _)
SubFrom(r, repl, s, l, from) ==
    LET m == SearchFrom(r, l, from)
    IN  IF m = NoMatch \/ m[2] = m[1] THEN SubSeq(s, from, Len(s))
        ELSE SubSeq(s, from, m[1] - 1) \o repl \o SubFrom(r, repl, s, l, m[2])

\* pattern.sub(repl, s) for a pattern compiled with re.IGNORECASE
ISub(p, repl, s) ==
    LET l == Lower(s)
    IN  IF Search(p, l) = NoMatch THEN s ELSE SubFrom(p.re, repl, s, l, 1)

(***************************************************************************)
(* Pattern library (FinancialContentFilter.__init__)                       *)
(***************************************************************************)

\* self.financial_patterns, compiled with re.IGNORECASE
financial_patterns ==
    <<
      \* r'(?:[\$<EUR><GBP><JPY>])[\d,.]+'
      Cat(<<Set(CurrencySet), Plus(Set(DigitSet \cup {",", "."}))>>),
      \* r'\d+(?:\.\d+)?\s*(?:dollars|euros|pounds)'
      Cat(<<Plus(Set(DigitSet)), Opt(Cat(<<Str("."), Plus(Set(DigitSet))>>)), Star(Set(SpaceSet)), Alt(<<Str("dollars"), Str("euros"), Str("pounds")>>)>>),
      \* r'\d+(?:\.\d+)?[kKmMbB]\b'
      Cat(<<Plus(Set(DigitSet)), Opt(Cat(<<Str("."), Plus(Set(DigitSet))>>)), Set({"k", "K", "m", "M", "b", "B"}), WordB>>),
      \* r'(?:revenue|profit|budget|expense|cost)\s+of\s+[\$<EUR><GBP><JPY>]?\d+'
      Cat(<<Alt(<<Str("revenue"), Str("profit"), Str("budget"), Str("expense"), Str("cost")>>), Plus(Set(SpaceSet)), Str("of"), Plus(Set(SpaceSet)), Opt(Set(CurrencySet)), Plus(Set(DigitSet))>>),
      \* r'(?:revenue|profit|budget|expense|cost)\s+[\$<EUR><GBP><JPY>]?\d+'
      Cat(<<Alt(<<Str("revenue"), Str("profit"), Str("budget"), Str("expense"), Str("cost")>>), Plus(Set(SpaceSet)), Opt(Set(CurrencySet)), Plus(Set(DigitSet))>>),
      \* r'salary\s+(?:is|of|equals|:)\s+[\$<EUR><GBP><JPY>]?\d+[,.]?\d*'
      Cat(<<Str("salary"), Plus(Set(SpaceSet)), Alt(<<Str("is"), Str("of"), Str("equals"), Str(":")>>), Plus(Set(SpaceSet)), Opt(Set(CurrencySet)), Plus(Set(DigitSet)), Opt(Set({",", "."})), Star(Set(DigitSet))>>),
      \* r'annual\s+salary\s+(?:is|of|equals|:)\s+[\$<EUR><GBP><JPY>]?\d+[,.]?\d*'
      Cat(<<Str("annual"), Plus(Set(SpaceSet)), Str("salary"), Plus(Set(SpaceSet)), Alt(<<Str("is"), Str("of"), Str("equals"), Str(":")>>), Plus(Set(SpaceSet)), Opt(Set(CurrencySet)), Plus(Set(DigitSet)), Opt(Set({",", "."})), Star(Set(DigitSet))>>),
      \* r'makes\s+[\$<EUR><GBP><JPY>]?\d+[,.]?\d*\s*(?:per|a|an)?\s*(?:year|month|week|annually)?'
      Cat(<<Str("makes"), Plus(Set(SpaceSet)), Opt(Set(CurrencySet)), Plus(Set(DigitSet)), Opt(Set({",", "."})), Star(Set(DigitSet)), Star(Set(SpaceSet)), Opt(Alt(<<Str("per"), Str("a"), Str("an")>>)), Star(Set(SpaceSet)), Opt(Alt(<<Str("year"), Str("month"), Str("week"), Str("annually")>>))>>),
      \* r'earns\s+[\$<EUR><GBP><JPY>]?\d+[,.]?\d*\s*(?:per|a|an)?\s*(?:year|month|week|annually)?'
      Cat(<<Str("earns"), Plus(Set(SpaceSet)), Opt(Set(CurrencySet)), Plus(Set(DigitSet)), Opt(Set({",", "."})), Star(Set(DigitSet)), Star(Set(SpaceSet)), Opt(Alt(<<Str("per"), Str("a"), Str("an")>>)), Star(Set(SpaceSet)), Opt(Alt(<<Str("year"), Str("month"), Str("week"), Str("annually")>>))>>),
      \* r'paid\s+[\$<EUR><GBP><JPY>]?\d+[,.]?\d*\s*(?:per|a|an)?\s*(?:year|month|week|annually)?'
      Cat(<<Str("paid"), Plus(Set(SpaceSet)), Opt(Set(CurrencySet)), Plus(Set(DigitSet)), Opt(Set({",", "."})), Star(Set(DigitSet)), Star(Set(SpaceSet)), Opt(Alt(<<Str("per"), Str("a"), Str("an")>>)), Star(Set(SpaceSet)), Opt(Alt(<<Str("year"), Str("month"), Str("week"), Str("annually")>>))>>),
      \* r'with\s+an?\s+annual\s+salary\s+of\s+[\$<EUR><GBP><JPY>]?\d+[,.]?\d*'
      Cat(<<Str("with"), Plus(Set(SpaceSet)), Str("a"), Opt(Str("n")), Plus(Set(SpaceSet)), Str("annual"), Plus(Set(SpaceSet)), Str("salary"), Plus(Set(SpaceSet)), Str("of"), Plus(Set(SpaceSet)), Opt(Set(CurrencySet)), Plus(Set(DigitSet)), Opt(Set({",", "."})), Star(Set(DigitSet))>>),
      \* r'salary\s+of\s+[\$<EUR><GBP><JPY>]?\d+[,.]?\d*'
      Cat(<<Str("salary"), Plus(Set(SpaceSet)), Str("of"), Plus(Set(SpaceSet)), Opt(Set(CurrencySet)), Plus(Set(DigitSet)), Opt(Set({",", "."})), Star(Set(DigitSet))>>),
      \* r'compensation\s+of\s+[\$<EUR><GBP><JPY>]?\d+[,.]?\d*'
      Cat(<<Str("compensation"), Plus(Set(SpaceSet)), Str("of"), Plus(Set(SpaceSet)), Opt(Set(CurrencySet)), Plus(Set(DigitSet)), Opt(Set({",", "."})), Star(Set(DigitSet))>>),
      \* r'income\s+of\s+[\$<EUR><GBP><JPY>]?\d+[,.]?\d*'
      Cat(<<Str("income"), Plus(Set(SpaceSet)), Str("of"), Plus(Set(SpaceSet)), Opt(Set(CurrencySet)), Plus(Set(DigitSet)), Opt(Set({",", "."})), Star(Set(DigitSet))>>),
      \* r'[\$<EUR><GBP><JPY>]\d{2,3},\d{3}'
      Cat(<<Set(CurrencySet), Rep(Set(DigitSet), 2, 3), Str(","), Rep(Set(DigitSet), 3, 3)>>),
      \* r'[\$<EUR><GBP><JPY>]\d{2,3}\.\d{3}'
      Cat(<<Set(CurrencySet), Rep(Set(DigitSet), 2, 3), Str("."), Rep(Set(DigitSet), 3, 3)>>),
      \* r'\d{2,3},\d{3}\s*(?:dollars|USD|\$)'
      Cat(<<Rep(Set(DigitSet), 2, 3), Str(","), Rep(Set(DigitSet), 3, 3), Star(Set(SpaceSet)), Alt(<<Str("dollars"), Str("usd"), Str("$")>>)>>)
    >>

\* self.self_reference_patterns, compiled with re.IGNORECASE
self_reference_patterns ==
    <<
      \* r'\bmy\s+(?:salary|compensation|pay|income|earnings|money)\b'
      Cat(<<WordB, Str("my"), Plus(Set(SpaceSet)), Alt(<<Str("salary"), Str("compensation"), Str("pay"), Str("income"), Str("earnings"), Str("money")>>), WordB>>),
      \* r'\bi\s+(?:make|earn|get\s+paid|receive|am\s+paid)\b'
      Cat(<<WordB, Str("i"), Plus(Set(SpaceSet)), Alt(<<Str("make"), Str("earn"), Cat(<<Str("get"), Plus(Set(SpaceSet)), Str("paid")>>), Str("receive"), Cat(<<Str("am"), Plus(Set(SpaceSet)), Str("paid")>>)>>), WordB>>),
      \* r'\bhow\s+much\s+(?:do\s+)?i\s+(?:make|earn|get\s+paid|receive)\b'
      Cat(<<WordB, Str("how"), Plus(Set(SpaceSet)), Str("much"), Plus(Set(SpaceSet)), Opt(Cat(<<Str("do"), Plus(Set(SpaceSet))>>)), Str("i"), Plus(Set(SpaceSet)), Alt(<<Str("make"), Str("earn"), Cat(<<Str("get"), Plus(Set(SpaceSet)), Str("paid")>>), Str("receive")>>), WordB>>),
      \* r"what\s+(?:is|\'s)\s+my\s+(?:salary|compensation|pay|income|earnings)\b"
      Cat(<<Str("what"), Plus(Set(SpaceSet)), Alt(<<Str("is"), Str("'s")>>), Plus(Set(SpaceSet)), Str("my"), Plus(Set(SpaceSet)), Alt(<<Str("salary"), Str("compensation"), Str("pay"), Str("income"), Str("earnings")>>), WordB>>),
      \* r'how\s+much\s+(?:money|salary|compensation)\s+do\s+i\s+(?:make|earn|get)\b'
      Cat(<<Str("how"), Plus(Set(SpaceSet)), Str("much"), Plus(Set(SpaceSet)), Alt(<<Str("money"), Str("salary"), Str("compensation")>>), Plus(Set(SpaceSet)), Str("do"), Plus(Set(SpaceSet)), Str("i"), Plus(Set(SpaceSet)), Alt(<<Str("make"), Str("earn"), Str("get")>>), WordB>>)
    >>

\* self.person_reference_patterns (most specific first), compiled with re.IGNORECASE
person_reference_patterns ==
    <<
      \* r'what\s+is\s+(?:the\s+)?salary of ([A-Z][a-z]+(?:\s+[A-Z][a-z]+)?)'
      Cat(<<Str("what"), Plus(Set(SpaceSet)), Str("is"), Plus(Set(SpaceSet)), Opt(Cat(<<Str("the"), Plus(Set(SpaceSet))>>)), Str("salary of "), Cap(Cat(<<Set(LetterSet), Plus(Set(LetterSet)), Opt(Cat(<<Plus(Set(SpaceSet)), Set(LetterSet), Plus(Set(LetterSet))>>))>>))>>),
      \* r'whats?\s+(?:the\s+)?salary of ([A-Z][a-z]+(?:\s+[A-Z][a-z]+)?)'
      Cat(<<Str("what"), Opt(Str("s")), Plus(Set(SpaceSet)), Opt(Cat(<<Str("the"), Plus(Set(SpaceSet))>>)), Str("salary of "), Cap(Cat(<<Set(LetterSet), Plus(Set(LetterSet)), Opt(Cat(<<Plus(Set(SpaceSet)), Set(LetterSet), Plus(Set(LetterSet))>>))>>))>>),
      \* r'salary of ([A-Z][a-z]+(?:\s+[A-Z][a-z]+)?)'
      Cat(<<Str("salary of "), Cap(Cat(<<Set(LetterSet), Plus(Set(LetterSet)), Opt(Cat(<<Plus(Set(SpaceSet)), Set(LetterSet), Plus(Set(LetterSet))>>))>>))>>),
      \* r'(?:the\s+)?salary of ([A-Z][a-z]+(?:\s+[A-Z][a-z]+)?)'
      Cat(<<Opt(Cat(<<Str("the"), Plus(Set(SpaceSet))>>)), Str("salary of "), Cap(Cat(<<Set(LetterSet), Plus(Set(LetterSet)), Opt(Cat(<<Plus(Set(SpaceSet)), Set(LetterSet), Plus(Set(LetterSet))>>))>>))>>),
      \* r'([A-Z][a-z]+(?:\s+[A-Z][a-z]+)?) salary'
      Cat(<<Cap(Cat(<<Set(LetterSet), Plus(Set(LetterSet)), Opt(Cat(<<Plus(Set(SpaceSet)), Set(LetterSet), Plus(Set(LetterSet))>>))>>)), Str(" salary")>>),
      \* r"([A-Z][a-z]+(?:\s+[A-Z][a-z]+)?)[\'s]* salary"
      Cat(<<Cap(Cat(<<Set(LetterSet), Plus(Set(LetterSet)), Opt(Cat(<<Plus(Set(SpaceSet)), Set(LetterSet), Plus(Set(LetterSet))>>))>>)), Star(Set({"'", "s", "S"})), Str(" salary")>>),
      \* r'([A-Z][a-z]+(?:\s+[A-Z][a-z]+)?) compensation'
      Cat(<<Cap(Cat(<<Set(LetterSet), Plus(Set(LetterSet)), Opt(Cat(<<Plus(Set(SpaceSet)), Set(LetterSet), Plus(Set(LetterSet))>>))>>)), Str(" compensation")>>),
      \* r'([A-Z][a-z]+(?:\s+[A-Z][a-z]+)?) pay'
      Cat(<<Cap(Cat(<<Set(LetterSet), Plus(Set(LetterSet)), Opt(Cat(<<Plus(Set(SpaceSet)), Set(LetterSet), Plus(Set(LetterSet))>>))>>)), Str(" pay")>>),
      \* r'how much does ([A-Z][a-z]+(?:\s+[A-Z][a-z]+)?) make'
      Cat(<<Str("how much does "), Cap(Cat(<<Set(LetterSet), Plus(Set(LetterSet)), Opt(Cat(<<Plus(Set(SpaceSet)), Set(LetterSet), Plus(Set(LetterSet))>>))>>)), Str(" make")>>),
      \* r"what is ([A-Z][a-z]+(?:\s+[A-Z][a-z]+)?)[\'s]* salary"
      Cat(<<Str("what is "), Cap(Cat(<<Set(LetterSet), Plus(Set(LetterSet)), Opt(Cat(<<Plus(Set(SpaceSet)), Set(LetterSet), Plus(Set(LetterSet))>>))>>)), Star(Set({"'", "s", "S"})), Str(" salary")>>),
      \* r'what does ([A-Z][a-z]+(?:\s+[A-Z][a-z]+)?) earn'
      Cat(<<Str("what does "), Cap(Cat(<<Set(LetterSet), Plus(Set(LetterSet)), Opt(Cat(<<Plus(Set(SpaceSet)), Set(LetterSet), Plus(Set(LetterSet))>>))>>)), Str(" earn")>>),
      \* r'how much does ([A-Z][a-z]+(?:\s+[A-Z][a-z]+)?) earn'
      Cat(<<Str("how much does "), Cap(Cat(<<Set(LetterSet), Plus(Set(LetterSet)), Opt(Cat(<<Plus(Set(SpaceSet)), Set(LetterSet), Plus(Set(LetterSet))>>))>>)), Str(" earn")>>),
      \* r"([A-Z][a-z]+(?:\s+[A-Z][a-z]+)?)\'s income"
      Cat(<<Cap(Cat(<<Set(LetterSet), Plus(Set(LetterSet)), Opt(Cat(<<Plus(Set(SpaceSet)), Set(LetterSet), Plus(Set(LetterSet))>>))>>)), Str("'s income")>>),
      \* r'([A-Z][a-z]+(?:\s+[A-Z][a-z]+)?) income'
      Cat(<<Cap(Cat(<<Set(LetterSet), Plus(Set(LetterSet)), Opt(Cat(<<Plus(Set(SpaceSet)), Set(LetterSet), Plus(Set(LetterSet))>>))>>)), Str(" income")>>),
      \* r'how much money does ([A-Z][a-z]+(?:\s+[A-Z][a-z]+)?) make'
      Cat(<<Str("how much money does "), Cap(Cat(<<Set(LetterSet), Plus(Set(LetterSet)), Opt(Cat(<<Plus(Set(SpaceSet)), Set(LetterSet), Plus(Set(LetterSet))>>))>>)), Str(" make")>>),
      \* r'what does ([A-Z][a-z]+(?:\s+[A-Z][a-z]+)?) take home'
      Cat(<<Str("what does "), Cap(Cat(<<Set(LetterSet), Plus(Set(LetterSet)), Opt(Cat(<<Plus(Set(SpaceSet)), Set(LetterSet), Plus(Set(LetterSet))>>))>>)), Str(" take home")>>),
      \* r'how much does ([A-Z][a-z]+(?:\s+[A-Z][a-z]+)?) take home'
      Cat(<<Str("how much does "), Cap(Cat(<<Set(LetterSet), Plus(Set(LetterSet)), Opt(Cat(<<Plus(Set(SpaceSet)), Set(LetterSet), Plus(Set(LetterSet))>>))>>)), Str(" take home")>>),
      \* r"([A-Z][a-z]+(?:\s+[A-Z][a-z]+)?)[\'s]* take home"
      Cat(<<Cap(Cat(<<Set(LetterSet), Plus(Set(LetterSet)), Opt(Cat(<<Plus(Set(SpaceSet)), Set(LetterSet), Plus(Set(LetterSet))>>))>>)), Star(Set({"'", "s", "S"})), Str(" take home")>>),
      \* r"what is ([A-Z][a-z]+(?:\s+[A-Z][a-z]+)?)[\'s]* take home"
      Cat(<<Str("what is "), Cap(Cat(<<Set(LetterSet), Plus(Set(LetterSet)), Opt(Cat(<<Plus(Set(SpaceSet)), Set(LetterSet), Plus(Set(LetterSet))>>))>>)), Star(Set({"'", "s", "S"})), Str(" take home")>>),
      \* r'([A-Z][a-z]+(?:\s+[A-Z][a-z]+)?) take home (?:pay|salary|income)'
      Cat(<<Cap(Cat(<<Set(LetterSet), Plus(Set(LetterSet)), Opt(Cat(<<Plus(Set(SpaceSet)), Set(LetterSet), Plus(Set(LetterSet))>>))>>)), Str(" take home "), Alt(<<Str("pay"), Str("salary"), Str("income")>>)>>),
      \* r'what does ([A-Z][a-z]+(?:\s+[A-Z][a-z]+)?) (?:make|earn|get)\s+(?:monthly|weekly|daily)'
      Cat(<<Str("what does "), Cap(Cat(<<Set(LetterSet), Plus(Set(LetterSet)), Opt(Cat(<<Plus(Set(SpaceSet)), Set(LetterSet), Plus(Set(LetterSet))>>))>>)), Str(" "), Alt(<<Str("make"), Str("earn"), Str("get")>>), Plus(Set(SpaceSet)), Alt(<<Str("monthly"), Str("weekly"), Str("daily")>>)>>),
      \* r'how much does ([A-Z][a-z]+(?:\s+[A-Z][a-z]+)?) (?:make|earn|get)\s+(?:monthly|weekly|daily)'
      Cat(<<Str("how much does "), Cap(Cat(<<Set(LetterSet), Plus(Set(LetterSet)), Opt(Cat(<<Plus(Set(SpaceSet)), Set(LetterSet), Plus(Set(LetterSet))>>))>>)), Str(" "), Alt(<<Str("make"), Str("earn"), Str("get")>>), Plus(Set(SpaceSet)), Alt(<<Str("monthly"), Str("weekly"), Str("daily")>>)>>),
      \* r"([A-Z][a-z]+(?:\s+[A-Z][a-z]+)?)[\'s]* (?:monthly|weekly|daily) (?:pay|salary|income)"
      Cat(<<Cap(Cat(<<Set(LetterSet), Plus(Set(LetterSet)), Opt(Cat(<<Plus(Set(SpaceSet)), Set(LetterSet), Plus(Set(LetterSet))>>))>>)), Star(Set({"'", "s", "S"})), Str(" "), Alt(<<Str("monthly"), Str("weekly"), Str("daily")>>), Str(" "), Alt(<<Str("pay"), Str("salary"), Str("income")>>)>>),
      \* r"what is ([A-Z][a-z]+(?:\s+[A-Z][a-z]+)?)[\'s]* (?:monthly|weekly|daily) (?:pay|salary|income)"
      Cat(<<Str("what is "), Cap(Cat(<<Set(LetterSet), Plus(Set(LetterSet)), Opt(Cat(<<Plus(Set(SpaceSet)), Set(LetterSet), Plus(Set(LetterSet))>>))>>)), Star(Set({"'", "s", "S"})), Str(" "), Alt(<<Str("monthly"), Str("weekly"), Str("daily")>>), Str(" "), Alt(<<Str("pay"), Str("salary"), Str("income")>>)>>),
      \* r'who is ([A-Z][a-z]+(?:\s+[A-Z][a-z]+)?)'
      Cat(<<Str("who is "), Cap(Cat(<<Set(LetterSet), Plus(Set(LetterSet)), Opt(Cat(<<Plus(Set(SpaceSet)), Set(LetterSet), Plus(Set(LetterSet))>>))>>))>>),
      \* r'tell me about ([A-Z][a-z]+(?:\s+[A-Z][a-z]+)?)'
      Cat(<<Str("tell me about "), Cap(Cat(<<Set(LetterSet), Plus(Set(LetterSet)), Opt(Cat(<<Plus(Set(SpaceSet)), Set(LetterSet), Plus(Set(LetterSet))>>))>>))>>),
      \* r'information about ([A-Z][a-z]+(?:\s+[A-Z][a-z]+)?)'
      Cat(<<Str("information about "), Cap(Cat(<<Set(LetterSet), Plus(Set(LetterSet)), Opt(Cat(<<Plus(Set(SpaceSet)), Set(LetterSet), Plus(Set(LetterSet))>>))>>))>>),
      \* r'how much does ([A-Z][a-z]+(?:\s+[A-Z][a-z]+)?) earn annually'
      Cat(<<Str("how much does "), Cap(Cat(<<Set(LetterSet), Plus(Set(LetterSet)), Opt(Cat(<<Plus(Set(SpaceSet)), Set(LetterSet), Plus(Set(LetterSet))>>))>>)), Str(" earn annually")>>),
      \* r'([A-Z][a-z]+(?:\s+[A-Z][a-z]+)?) earn annually'
      Cat(<<Cap(Cat(<<Set(LetterSet), Plus(Set(LetterSet)), Opt(Cat(<<Plus(Set(SpaceSet)), Set(LetterSet), Plus(Set(LetterSet))>>))>>)), Str(" earn annually")>>),
      \* r'([A-Z][a-z]+(?:\s+[A-Z][a-z]+)?) earns annually'
      Cat(<<Cap(Cat(<<Set(LetterSet), Plus(Set(LetterSet)), Opt(Cat(<<Plus(Set(SpaceSet)), Set(LetterSet), Plus(Set(LetterSet))>>))>>)), Str(" earns annually")>>),
      \* r'what does ([A-Z][a-z]+(?:\s+[A-Z][a-z]+)?) earn annually'
      Cat(<<Str("what does "), Cap(Cat(<<Set(LetterSet), Plus(Set(LetterSet)), Opt(Cat(<<Plus(Set(SpaceSet)), Set(LetterSet), Plus(Set(LetterSet))>>))>>)), Str(" earn annually")>>),
      \* r"([A-Z][a-z]+(?:\s+[A-Z][a-z]+)?)[\'s]* pay details"
      Cat(<<Cap(Cat(<<Set(LetterSet), Plus(Set(LetterSet)), Opt(Cat(<<Plus(Set(SpaceSet)), Set(LetterSet), Plus(Set(LetterSet))>>))>>)), Star(Set({"'", "s", "S"})), Str(" pay details")>>),
      \* r"show me ([A-Z][a-z]+(?:\s+[A-Z][a-z]+)?)[\'s]* pay details"
      Cat(<<Str("show me "), Cap(Cat(<<Set(LetterSet), Plus(Set(LetterSet)), Opt(Cat(<<Plus(Set(SpaceSet)), Set(LetterSet), Plus(Set(LetterSet))>>))>>)), Star(Set({"'", "s", "S"})), Str(" pay details")>>),
      \* r"([A-Z][a-z]+(?:\s+[A-Z][a-z]+)?)[\'s]* compensation package"
      Cat(<<Cap(Cat(<<Set(LetterSet), Plus(Set(LetterSet)), Opt(Cat(<<Plus(Set(SpaceSet)), Set(LetterSet), Plus(Set(LetterSet))>>))>>)), Star(Set({"'", "s", "S"})), Str(" compensation package")>>),
      \* r"what[\'s]* ([A-Z][a-z]+(?:\s+[A-Z][a-z]+)?)[\'s]* compensation package"
      Cat(<<Str("what"), Star(Set({"'", "s", "S"})), Str(" "), Cap(Cat(<<Set(LetterSet), Plus(Set(LetterSet)), Opt(Cat(<<Plus(Set(SpaceSet)), Set(LetterSet), Plus(Set(LetterSet))>>))>>)), Star(Set({"'", "s", "S"})), Str(" compensation package")>>),
      \* r"([A-Z][a-z]+(?:\s+[A-Z][a-z]+)?)[\'s]* total remuneration"
      Cat(<<Cap(Cat(<<Set(LetterSet), Plus(Set(LetterSet)), Opt(Cat(<<Plus(Set(SpaceSet)), Set(LetterSet), Plus(Set(LetterSet))>>))>>)), Star(Set({"'", "s", "S"})), Str(" total remuneration")>>),
      \* r"tell me ([A-Z][a-z]+(?:\s+[A-Z][a-z]+)?)[\'s]* total remuneration"
      Cat(<<Str("tell me "), Cap(Cat(<<Set(LetterSet), Plus(Set(LetterSet)), Opt(Cat(<<Plus(Set(SpaceSet)), Set(LetterSet), Plus(Set(LetterSet))>>))>>)), Star(Set({"'", "s", "S"})), Str(" total remuneration")>>),
      \* r'tell me what ([A-Z][a-z]+(?:\s+[A-Z][a-z]+)?) annually'
      Cat(<<Str("tell me what "), Cap(Cat(<<Set(LetterSet), Plus(Set(LetterSet)), Opt(Cat(<<Plus(Set(SpaceSet)), Set(LetterSet), Plus(Set(LetterSet))>>))>>)), Str(" annually")>>),
      \* r'what ([A-Z][a-z]+(?:\s+[A-Z][a-z]+)?) annually'
      Cat(<<Str("what "), Cap(Cat(<<Set(LetterSet), Plus(Set(LetterSet)), Opt(Cat(<<Plus(Set(SpaceSet)), Set(LetterSet), Plus(Set(LetterSet))>>))>>)), Str(" annually")>>),
      \* r'is ([A-Z][a-z]+(?:\s+[A-Z][a-z]+)?) in the .+ bracket'
      Cat(<<Str("is "), Cap(Cat(<<Set(LetterSet), Plus(Set(LetterSet)), Opt(Cat(<<Plus(Set(SpaceSet)), Set(LetterSet), Plus(Set(LetterSet))>>))>>)), Str(" in the "), Plus(AnyChar), Str(" bracket")>>),
      \* r'does ([A-Z][a-z]+(?:\s+[A-Z][a-z]+)?) fall in'
      Cat(<<Str("does "), Cap(Cat(<<Set(LetterSet), Plus(Set(LetterSet)), Opt(Cat(<<Plus(Set(SpaceSet)), Set(LetterSet), Plus(Set(LetterSet))>>))>>)), Str(" fall in")>>)
    >>

\* self.aggregate_salary_patterns, compiled with re.IGNORECASE
aggregate_salary_patterns ==
    <<
      \* r'who\s+(?:makes|earns|gets|is paid|receives)\s+(?:the\s+)?(?:most|highest|greatest|least|lowest|minimum|maximum)'
      Cat(<<Str("who"), Plus(Set(SpaceSet)), Alt(<<Str("makes"), Str("earns"), Str("gets"), Str("is paid"), Str("receives")>>), Plus(Set(SpaceSet)), Opt(Cat(<<Str("the"), Plus(Set(SpaceSet))>>)), Alt(<<Str("most"), Str("highest"), Str("greatest"), Str("least"), Str("lowest"), Str("minimum"), Str("maximum")>>)>>),
      \* r'who\s+(?:makes|earns|gets|is paid|receives)\s+(?:less|more)\s+than'
      Cat(<<Str("who"), Plus(Set(SpaceSet)), Alt(<<Str("makes"), Str("earns"), Str("gets"), Str("is paid"), Str("receives")>>), Plus(Set(SpaceSet)), Alt(<<Str("less"), Str("more")>>), Plus(Set(SpaceSet)), Str("than")>>),
      \* r'who\s+(?:makes|earns|gets|is paid|receives)\s+(?:below|above|under|over)'
      Cat(<<Str("who"), Plus(Set(SpaceSet)), Alt(<<Str("makes"), Str("earns"), Str("gets"), Str("is paid"), Str("receives")>>), Plus(Set(SpaceSet)), Alt(<<Str("below"), Str("above"), Str("under"), Str("over")>>)>>),
      \* r'who\s+(?:makes|earns|gets|is paid|receives)\s+(?:less|more)\s+than\s+(?:the\s+)?(?:average|avg|median)'
      Cat(<<Str("who"), Plus(Set(SpaceSet)), Alt(<<Str("makes"), Str("earns"), Str("gets"), Str("is paid"), Str("receives")>>), Plus(Set(SpaceSet)), Alt(<<Str("less"), Str("more")>>), Plus(Set(SpaceSet)), Str("than"), Plus(Set(SpaceSet)), Opt(Cat(<<Str("the"), Plus(Set(SpaceSet))>>)), Alt(<<Str("average"), Str("avg"), Str("median")>>)>>),
      \* r'who\s+(?:makes|earns|gets|is paid|receives)\s+(?:below|above|under|over)\s+(?:the\s+)?(?:average|avg|median)'
      Cat(<<Str("who"), Plus(Set(SpaceSet)), Alt(<<Str("makes"), Str("earns"), Str("gets"), Str("is paid"), Str("receives")>>), Plus(Set(SpaceSet)), Alt(<<Str("below"), Str("above"), Str("under"), Str("over")>>), Plus(Set(SpaceSet)), Opt(Cat(<<Str("the"), Plus(Set(SpaceSet))>>)), Alt(<<Str("average"), Str("avg"), Str("median")>>)>>),
      \* r'who\s+(?:makes|earns|gets|is paid|receives)\s+the\s+(?:less|more)\s+than'
      Cat(<<Str("who"), Plus(Set(SpaceSet)), Alt(<<Str("makes"), Str("earns"), Str("gets"), Str("is paid"), Str("receives")>>), Plus(Set(SpaceSet)), Str("the"), Plus(Set(SpaceSet)), Alt(<<Str("less"), Str("more")>>), Plus(Set(SpaceSet)), Str("than")>>),
      \* r'who\s+(?:makes|earns|gets|is paid|receives)\s+the\s+(?:less|more)\s+than\s+(?:the\s+)?(?:average|avg|median)'
      Cat(<<Str("who"), Plus(Set(SpaceSet)), Alt(<<Str("makes"), Str("earns"), Str("gets"), Str("is paid"), Str("receives")>>), Plus(Set(SpaceSet)), Str("the"), Plus(Set(SpaceSet)), Alt(<<Str("less"), Str("more")>>), Plus(Set(SpaceSet)), Str("than"), Plus(Set(SpaceSet)), Opt(Cat(<<Str("the"), Plus(Set(SpaceSet))>>)), Alt(<<Str("average"), Str("avg"), Str("median")>>)>>),
      \* r'who\s+(?:makes|earns|gets|is paid|receives)\s+the\s+(?:least|most)'
      Cat(<<Str("who"), Plus(Set(SpaceSet)), Alt(<<Str("makes"), Str("earns"), Str("gets"), Str("is paid"), Str("receives")>>), Plus(Set(SpaceSet)), Str("the"), Plus(Set(SpaceSet)), Alt(<<Str("least"), Str("most")>>)>>),
      \* r'who\s+(?:is\s+paid|gets\s+paid)\s+(?:the\s+)?(?:most|highest|least|lowest)'
      Cat(<<Str("who"), Plus(Set(SpaceSet)), Alt(<<Cat(<<Str("is"), Plus(Set(SpaceSet)), Str("paid")>>), Cat(<<Str("gets"), Plus(Set(SpaceSet)), Str("paid")>>)>>), Plus(Set(SpaceSet)), Opt(Cat(<<Str("the"), Plus(Set(SpaceSet))>>)), Alt(<<Str("most"), Str("highest"), Str("least"), Str("lowest")>>)>>),
      \* r'who\s+(?:is\s+paid|gets\s+paid)\s+(?:less|more)\s+than'
      Cat(<<Str("who"), Plus(Set(SpaceSet)), Alt(<<Cat(<<Str("is"), Plus(Set(SpaceSet)), Str("paid")>>), Cat(<<Str("gets"), Plus(Set(SpaceSet)), Str("paid")>>)>>), Plus(Set(SpaceSet)), Alt(<<Str("less"), Str("more")>>), Plus(Set(SpaceSet)), Str("than")>>),
      \* r'who\s+(?:is\s+paid|gets\s+paid)\s+(?:below|above|under|over)'
      Cat(<<Str("who"), Plus(Set(SpaceSet)), Alt(<<Cat(<<Str("is"), Plus(Set(SpaceSet)), Str("paid")>>), Cat(<<Str("gets"), Plus(Set(SpaceSet)), Str("paid")>>)>>), Plus(Set(SpaceSet)), Alt(<<Str("below"), Str("above"), Str("under"), Str("over")>>)>>),
      \* r'who\s+(?:makes|earns|gets|is paid|receives)\s+(?:the\s+)?(?:average|avg|median)'
      Cat(<<Str("who"), Plus(Set(SpaceSet)), Alt(<<Str("makes"), Str("earns"), Str("gets"), Str("is paid"), Str("receives")>>), Plus(Set(SpaceSet)), Opt(Cat(<<Str("the"), Plus(Set(SpaceSet))>>)), Alt(<<Str("average"), Str("avg"), Str("median")>>)>>),
      \* r'who\s+(?:makes|earns|gets|is paid|receives)\s+(?:around|about|approximately)\s+(?:the\s+)?(?:average|avg|median)'
      Cat(<<Str("who"), Plus(Set(SpaceSet)), Alt(<<Str("makes"), Str("earns"), Str("gets"), Str("is paid"), Str("receives")>>), Plus(Set(SpaceSet)), Str("a"), Alt(<<Str("round"), Str("bout"), Str("pproximately")>>), Plus(Set(SpaceSet)), Opt(Cat(<<Str("the"), Plus(Set(SpaceSet))>>)), Alt(<<Str("average"), Str("avg"), Str("median")>>)>>),
      \* r'highest\s+(?:paid|salary|earner)'
      Cat(<<Str("highest"), Plus(Set(SpaceSet)), Alt(<<Str("paid"), Str("salary"), Str("earner")>>)>>),
      \* r'lowest\s+(?:paid|salary|earner)'
      Cat(<<Str("lowest"), Plus(Set(SpaceSet)), Alt(<<Str("paid"), Str("salary"), Str("earner")>>)>>),
      \* r'(?:maximum|minimum)\s+salary'
      Cat(<<Str("m"), Alt(<<Str("aximum"), Str("inimum")>>), Plus(Set(SpaceSet)), Str("salary")>>),
      \* r'(?:most|least)\s+(?:paid|salary)'
      Cat(<<Alt(<<Str("most"), Str("least")>>), Plus(Set(SpaceSet)), Alt(<<Str("paid"), Str("salary")>>)>>),
      \* r'average\s+salary'
      Cat(<<Str("average"), Plus(Set(SpaceSet)), Str("salary")>>),
      \* r'median\s+salary'
      Cat(<<Str("median"), Plus(Set(SpaceSet)), Str("salary")>>),
      \* r'salary\s+(?:range|distribution|statistics)'
      Cat(<<Str("salary"), Plus(Set(SpaceSet)), Alt(<<Str("range"), Str("distribution"), Str("statistics")>>)>>),
      \* r'who\s+earns\s+[\$<EUR><GBP><JPY>]?\d+[,.]?\d*'
      Cat(<<Str("who"), Plus(Set(SpaceSet)), Str("earns"), Plus(Set(SpaceSet)), Opt(Set(CurrencySet)), Plus(Set(DigitSet)), Opt(Set({",", "."})), Star(Set(DigitSet))>>),
      \* r'who\s+makes\s+[\$<EUR><GBP><JPY>]?\d+[,.]?\d*'
      Cat(<<Str("who"), Plus(Set(SpaceSet)), Str("makes"), Plus(Set(SpaceSet)), Opt(Set(CurrencySet)), Plus(Set(DigitSet)), Opt(Set({",", "."})), Star(Set(DigitSet))>>),
      \* r'who\s+gets\s+paid\s+[\$<EUR><GBP><JPY>]?\d+[,.]?\d*'
      Cat(<<Str("who"), Plus(Set(SpaceSet)), Str("gets"), Plus(Set(SpaceSet)), Str("paid"), Plus(Set(SpaceSet)), Opt(Set(CurrencySet)), Plus(Set(DigitSet)), Opt(Set({",", "."})), Star(Set(DigitSet))>>),
      \* r'who\s+receives\s+[\$<EUR><GBP><JPY>]?\d+[,.]?\d*'
      Cat(<<Str("who"), Plus(Set(SpaceSet)), Str("receives"), Plus(Set(SpaceSet)), Opt(Set(CurrencySet)), Plus(Set(DigitSet)), Opt(Set({",", "."})), Star(Set(DigitSet))>>),
      \* r'which\s+employee\s+(?:earns|makes|gets)\s+[\$<EUR><GBP><JPY>]?\d+[,.]?\d*'
      Cat(<<Str("which"), Plus(Set(SpaceSet)), Str("employee"), Plus(Set(SpaceSet)), Alt(<<Str("earns"), Str("makes"), Str("gets")>>), Plus(Set(SpaceSet)), Opt(Set(CurrencySet)), Plus(Set(DigitSet)), Opt(Set({",", "."})), Star(Set(DigitSet))>>),
      \* r'employee\s+(?:earning|making)\s+[\$<EUR><GBP><JPY>]?\d+[,.]?\d*'
      Cat(<<Str("employee"), Plus(Set(SpaceSet)), Alt(<<Str("earning"), Str("making")>>), Plus(Set(SpaceSet)), Opt(Set(CurrencySet)), Plus(Set(DigitSet)), Opt(Set({",", "."})), Star(Set(DigitSet))>>),
      \* r'compare\s+([A-Z][a-z]+(?:\s+[A-Z][a-z]+)?)\s+salary'
      Cat(<<Str("compare"), Plus(Set(SpaceSet)), Cap(Cat(<<Set(LetterSet), Plus(Set(LetterSet)), Opt(Cat(<<Plus(Set(SpaceSet)), Set(LetterSet), Plus(Set(LetterSet))>>))>>)), Plus(Set(SpaceSet)), Str("salary")>>),
      \* r'is\s+([A-Z][a-z]+(?:\s+[A-Z][a-z]+)?)\s+paid\s+fairly'
      Cat(<<Str("is"), Plus(Set(SpaceSet)), Cap(Cat(<<Set(LetterSet), Plus(Set(LetterSet)), Opt(Cat(<<Plus(Set(SpaceSet)), Set(LetterSet), Plus(Set(LetterSet))>>))>>)), Plus(Set(SpaceSet)), Str("paid"), Plus(Set(SpaceSet)), Str("fairly")>>),
      \* r'([A-Z][a-z]+(?:\s+[A-Z][a-z]+)?)\s+salary\s+(?:compared|vs)'
      Cat(<<Cap(Cat(<<Set(LetterSet), Plus(Set(LetterSet)), Opt(Cat(<<Plus(Set(SpaceSet)), Set(LetterSet), Plus(Set(LetterSet))>>))>>)), Plus(Set(SpaceSet)), Str("salary"), Plus(Set(SpaceSet)), Alt(<<Str("compared"), Str("vs")>>)>>),
      \* r'highest\s+salary\s+in\s+(?:sales|marketing|engineering)'
      Cat(<<Str("highest"), Plus(Set(SpaceSet)), Str("salary"), Plus(Set(SpaceSet)), Str("in"), Plus(Set(SpaceSet)), Alt(<<Str("sales"), Str("marketing"), Str("engineering")>>)>>),
      \* r'which\s+employee\s+has\s+the\s+highest\s+salary'
      Cat(<<Str("which"), Plus(Set(SpaceSet)), Str("employee"), Plus(Set(SpaceSet)), Str("has"), Plus(Set(SpaceSet)), Str("the"), Plus(Set(SpaceSet)), Str("highest"), Plus(Set(SpaceSet)), Str("salary")>>),
      \* r'who\s+earns\s+(?:the\s+)?(?:most|least|highest|lowest)\s+in\s+(?:sales|marketing|engineering|hr)'
      Cat(<<Str("who"), Plus(Set(SpaceSet)), Str("earns"), Plus(Set(SpaceSet)), Opt(Cat(<<Str("the"), Plus(Set(SpaceSet))>>)), Alt(<<Str("most"), Str("least"), Str("highest"), Str("lowest")>>), Plus(Set(SpaceSet)), Str("in"), Plus(Set(SpaceSet)), Alt(<<Str("sales"), Str("marketing"), Str("engineering"), Str("hr")>>)>>),
      \* r'highest\s+earner\s+in\s+(?:sales|marketing|engineering|hr)'
      Cat(<<Str("highest"), Plus(Set(SpaceSet)), Str("earner"), Plus(Set(SpaceSet)), Str("in"), Plus(Set(SpaceSet)), Alt(<<Str("sales"), Str("marketing"), Str("engineering"), Str("hr")>>)>>),
      \* r'lowest\s+earner\s+in\s+(?:sales|marketing|engineering|hr)'
      Cat(<<Str("lowest"), Plus(Set(SpaceSet)), Str("earner"), Plus(Set(SpaceSet)), Str("in"), Plus(Set(SpaceSet)), Alt(<<Str("sales"), Str("marketing"), Str("engineering"), Str("hr")>>)>>)
    >>

\* self.financial_keywords
financial_keywords ==
    <<"salary", "compensation", "pay", "earn", "income", "make", "makes", "revenue", "profit", "budget", "expense", "cost", "dollar", "euro", "pound", "money", "cash", "financial", "finance", "fiscal", "annually", "yearly", "bracket", "range", "100k", "$100k", "figure", "take home", "monthly", "weekly", "daily", "paid", "paycheck", "wage", "wages", "earnings", "remuneration">>

\* self.expense_policy_patterns, compiled with re.IGNORECASE
expense_policy_patterns ==
    <<
      \* r'how\s+(?:do\s+i|to)\s+submit\s+expense\s+reports?'
      Cat(<<Str("how"), Plus(Set(SpaceSet)), Alt(<<Cat(<<Str("do"), Plus(Set(SpaceSet)), Str("i")>>), Str("to")>>), Plus(Set(SpaceSet)), Str("submit"), Plus(Set(SpaceSet)), Str("expense"), Plus(Set(SpaceSet)), Str("report"), Opt(Str("s"))>>),
      \* r'expense\s+report\s+(?:process|procedure|submission|policy)'
      Cat(<<Str("expense"), Plus(Set(SpaceSet)), Str("report"), Plus(Set(SpaceSet)), Alt(<<Str("process"), Str("procedure"), Str("submission"), Str("policy")>>)>>),
      \* r'submit\s+(?:an?\s+)?expense\s+reports?'
      Cat(<<Str("submit"), Plus(Set(SpaceSet)), Opt(Cat(<<Str("a"), Opt(Str("n")), Plus(Set(SpaceSet))>>)), Str("expense"), Plus(Set(SpaceSet)), Str("report"), Opt(Str("s"))>>),
      \* r'how\s+to\s+(?:file|submit|complete)\s+expense'
      Cat(<<Str("how"), Plus(Set(SpaceSet)), Str("to"), Plus(Set(SpaceSet)), Alt(<<Str("file"), Str("submit"), Str("complete")>>), Plus(Set(SpaceSet)), Str("expense")>>),
      \* r'how\s+(?:do\s+i|to)\s+file\s+expense\s+reports?'
      Cat(<<Str("how"), Plus(Set(SpaceSet)), Alt(<<Cat(<<Str("do"), Plus(Set(SpaceSet)), Str("i")>>), Str("to")>>), Plus(Set(SpaceSet)), Str("file"), Plus(Set(SpaceSet)), Str("expense"), Plus(Set(SpaceSet)), Str("report"), Opt(Str("s"))>>),
      \* r'can\s+i\s+submit\s+(?:an?\s+)?expense\s+without\s+(?:manager\s+)?approval'
      Cat(<<Str("can"), Plus(Set(SpaceSet)), Str("i"), Plus(Set(SpaceSet)), Str("submit"), Plus(Set(SpaceSet)), Opt(Cat(<<Str("a"), Opt(Str("n")), Plus(Set(SpaceSet))>>)), Str("expense"), Plus(Set(SpaceSet)), Str("without"), Plus(Set(SpaceSet)), Opt(Cat(<<Str("manager"), Plus(Set(SpaceSet))>>)), Str("approval")>>),
      \* r'(?:do\s+i\s+need|need)\s+(?:manager\s+)?approval\s+for\s+expense'
      Cat(<<Alt(<<Cat(<<Str("do"), Plus(Set(SpaceSet)), Str("i"), Plus(Set(SpaceSet)), Str("need")>>), Str("need")>>), Plus(Set(SpaceSet)), Opt(Cat(<<Str("manager"), Plus(Set(SpaceSet))>>)), Str("approval"), Plus(Set(SpaceSet)), Str("for"), Plus(Set(SpaceSet)), Str("expense")>>),
      \* r'expense\s+approval\s+(?:process|procedure|policy|requirements?)'
      Cat(<<Str("expense"), Plus(Set(SpaceSet)), Str("approval"), Plus(Set(SpaceSet)), Alt(<<Str("process"), Str("procedure"), Str("policy"), Cat(<<Str("requirement"), Opt(Str("s"))>>)>>)>>),
      \* r'who\s+should\s+approve\s+my\s+expense\s+report'
      Cat(<<Str("who"), Plus(Set(SpaceSet)), Str("should"), Plus(Set(SpaceSet)), Str("approve"), Plus(Set(SpaceSet)), Str("my"), Plus(Set(SpaceSet)), Str("expense"), Plus(Set(SpaceSet)), Str("report")>>),
      \* r'who\s+approves?\s+expense\s+reports?'
      Cat(<<Str("who"), Plus(Set(SpaceSet)), Str("approve"), Opt(Str("s")), Plus(Set(SpaceSet)), Str("expense"), Plus(Set(SpaceSet)), Str("report"), Opt(Str("s"))>>),
      \* r'(?:are|is)\s+(?:personal\s+)?expenses?\s+reimbursable'
      Cat(<<Alt(<<Str("are"), Str("is")>>), Plus(Set(SpaceSet)), Opt(Cat(<<Str("personal"), Plus(Set(SpaceSet))>>)), Str("expense"), Opt(Str("s")), Plus(Set(SpaceSet)), Str("reimbursable")>>),
      \* r'what\s+expenses?\s+(?:are\s+)?(?:can\s+be\s+)?reimbursed?'
      Cat(<<Str("what"), Plus(Set(SpaceSet)), Str("expense"), Opt(Str("s")), Plus(Set(SpaceSet)), Opt(Cat(<<Str("are"), Plus(Set(SpaceSet))>>)), Opt(Cat(<<Str("can"), Plus(Set(SpaceSet)), Str("be"), Plus(Set(SpaceSet))>>)), Str("reimburse"), Opt(Str("d"))>>),
      \* r'(?:which|what\s+kind\s+of|what\s+types?\s+of)\s+expenses?\s+(?:can\s+i\s+)?(?:claim|get\s+reimbursed)'
      Cat(<<Str("wh"), Alt(<<Str("ich"), Cat(<<Str("at"), Plus(Set(SpaceSet)), Str("kind"), Plus(Set(SpaceSet)), Str("of")>>), Cat(<<Str("at"), Plus(Set(SpaceSet)), Str("type"), Opt(Str("s")), Plus(Set(SpaceSet)), Str("of")>>)>>), Plus(Set(SpaceSet)), Str("expense"), Opt(Str("s")), Plus(Set(SpaceSet)), Opt(Cat(<<Str("can"), Plus(Set(SpaceSet)), Str("i"), Plus(Set(SpaceSet))>>)), Alt(<<Str("claim"), Cat(<<Str("get"), Plus(Set(SpaceSet)), Str("reimbursed")>>)>>)>>),
      \* r'reimbursable\s+expenses?'
      Cat(<<Str("reimbursable"), Plus(Set(SpaceSet)), Str("expense"), Opt(Str("s"))>>),
      \* r'expense\s+reimbursement\s+(?:process|procedure|policy|eligibility)'
      Cat(<<Str("expense"), Plus(Set(SpaceSet)), Str("reimbursement"), Plus(Set(SpaceSet)), Alt(<<Str("process"), Str("procedure"), Str("policy"), Str("eligibility")>>)>>),
      \* r'what\s+(?:are\s+the\s+)?acceptable\s+expense\s+categories'
      Cat(<<Str("what"), Plus(Set(SpaceSet)), Opt(Cat(<<Str("are"), Plus(Set(SpaceSet)), Str("the"), Plus(Set(SpaceSet))>>)), Str("acceptable"), Plus(Set(SpaceSet)), Str("expense"), Plus(Set(SpaceSet)), Str("categories")>>),
      \* r'acceptable\s+expense\s+categories\s+for\s+reimbursement'
      Cat(<<Str("acceptable"), Plus(Set(SpaceSet)), Str("expense"), Plus(Set(SpaceSet)), Str("categories"), Plus(Set(SpaceSet)), Str("for"), Plus(Set(SpaceSet)), Str("reimbursement")>>),
      \* r"(?:what\'?s\s+the\s+)?deadline\s+to\s+submit\s+(?:my\s+)?expenses?"
      Cat(<<Opt(Cat(<<Str("what"), Opt(Str("'")), Str("s"), Plus(Set(SpaceSet)), Str("the"), Plus(Set(SpaceSet))>>)), Str("deadline"), Plus(Set(SpaceSet)), Str("to"), Plus(Set(SpaceSet)), Str("submit"), Plus(Set(SpaceSet)), Opt(Cat(<<Str("my"), Plus(Set(SpaceSet))>>)), Str("expense"), Opt(Str("s"))>>),
      \* r'are\s+alcohol\s+expenses?\s+reimbursed?'
      Cat(<<Str("are"), Plus(Set(SpaceSet)), Str("alcohol"), Plus(Set(SpaceSet)), Str("expense"), Opt(Str("s")), Plus(Set(SpaceSet)), Str("reimburse"), Opt(Str("d"))>>),
      \* r'what\s+qualifies\s+as\s+(?:a\s+)?reimbursable\s+business\s+expense'
      Cat(<<Str("what"), Plus(Set(SpaceSet)), Str("qualifies"), Plus(Set(SpaceSet)), Str("as"), Plus(Set(SpaceSet)), Opt(Cat(<<Str("a"), Plus(Set(SpaceSet))>>)), Str("reimbursable"), Plus(Set(SpaceSet)), Str("business"), Plus(Set(SpaceSet)), Str("expense")>>),
      \* r'can\s+i\s+get\s+reimbursed\s+for\s+remote\s+work\s+equipment'
      Cat(<<Str("can"), Plus(Set(SpaceSet)), Str("i"), Plus(Set(SpaceSet)), Str("get"), Plus(Set(SpaceSet)), Str("reimbursed"), Plus(Set(SpaceSet)), Str("for"), Plus(Set(SpaceSet)), Str("remote"), Plus(Set(SpaceSet)), Str("work"), Plus(Set(SpaceSet)), Str("equipment")>>),
      \* r'(?:business\s+travel|travel)\s+expense\s+(?:policy|procedure|reimbursement)'
      Cat(<<Alt(<<Cat(<<Str("business"), Plus(Set(SpaceSet)), Str("travel")>>), Str("travel")>>), Plus(Set(SpaceSet)), Str("expense"), Plus(Set(SpaceSet)), Alt(<<Str("policy"), Str("procedure"), Str("reimbursement")>>)>>),
      \* r'what\s+(?:kind\s+of\s+)?expenses?\s+(?:can\s+i\s+)?(?:claim|submit)\s+for\s+(?:business\s+)?travel'
      Cat(<<Str("what"), Plus(Set(SpaceSet)), Opt(Cat(<<Str("kind"), Plus(Set(SpaceSet)), Str("of"), Plus(Set(SpaceSet))>>)), Str("expense"), Opt(Str("s")), Plus(Set(SpaceSet)), Opt(Cat(<<Str("can"), Plus(Set(SpaceSet)), Str("i"), Plus(Set(SpaceSet))>>)), Alt(<<Str("claim"), Str("submit")>>), Plus(Set(SpaceSet)), Str("for"), Plus(Set(SpaceSet)), Opt(Cat(<<Str("business"), Plus(Set(SpaceSet))>>)), Str("travel")>>),
      \* r'travel\s+(?:related\s+)?expense\s+(?:policy|guidelines)'
      Cat(<<Str("travel"), Plus(Set(SpaceSet)), Opt(Cat(<<Str("related"), Plus(Set(SpaceSet))>>)), Str("expense"), Plus(Set(SpaceSet)), Alt(<<Str("policy"), Str("guidelines")>>)>>),
      \* r"(?:what\'?s\s+the\s+)?deadline\s+for\s+(?:submitting|filing)\s+(?:business\s+)?expenses?"
      Cat(<<Opt(Cat(<<Str("what"), Opt(Str("'")), Str("s"), Plus(Set(SpaceSet)), Str("the"), Plus(Set(SpaceSet))>>)), Str("deadline"), Plus(Set(SpaceSet)), Str("for"), Plus(Set(SpaceSet)), Alt(<<Str("submitting"), Str("filing")>>), Plus(Set(SpaceSet)), Opt(Cat(<<Str("business"), Plus(Set(SpaceSet))>>)), Str("expense"), Opt(Str("s"))>>),
      \* r'what\s+is\s+the\s+(?:submission\s+)?deadline\s+for\s+(?:business\s+)?expenses?'
      Cat(<<Str("what"), Plus(Set(SpaceSet)), Str("is"), Plus(Set(SpaceSet)), Str("the"), Plus(Set(SpaceSet)), Opt(Cat(<<Str("submission"), Plus(Set(SpaceSet))>>)), Str("deadline"), Plus(Set(SpaceSet)), Str("for"), Plus(Set(SpaceSet)), Opt(Cat(<<Str("business"), Plus(Set(SpaceSet))>>)), Str("expense"), Opt(Str("s"))>>),
      \* r'when\s+(?:do\s+i\s+need\s+to|should\s+i)\s+submit\s+expense\s+reports?'
      Cat(<<Str("when"), Plus(Set(SpaceSet)), Alt(<<Cat(<<Str("do"), Plus(Set(SpaceSet)), Str("i"), Plus(Set(SpaceSet)), Str("need"), Plus(Set(SpaceSet)), Str("to")>>), Cat(<<Str("should"), Plus(Set(SpaceSet)), Str("i")>>)>>), Plus(Set(SpaceSet)), Str("submit"), Plus(Set(SpaceSet)), Str("expense"), Plus(Set(SpaceSet)), Str("report"), Opt(Str("s"))>>),
      \* r'expense\s+(?:submission\s+)?deadline'
      Cat(<<Str("expense"), Plus(Set(SpaceSet)), Opt(Cat(<<Str("submission"), Plus(Set(SpaceSet))>>)), Str("deadline")>>),
      \* r'how\s+long\s+(?:do\s+i\s+have\s+)?to\s+submit\s+expenses?'
      Cat(<<Str("how"), Plus(Set(SpaceSet)), Str("long"), Plus(Set(SpaceSet)), Opt(Cat(<<Str("do"), Plus(Set(SpaceSet)), Str("i"), Plus(Set(SpaceSet)), Str("have"), Plus(Set(SpaceSet))>>)), Str("to"), Plus(Set(SpaceSet)), Str("submit"), Plus(Set(SpaceSet)), Str("expense"), Opt(Str("s"))>>),
      \* r'how\s+(?:do\s+i|to)\s+track\s+(?:my\s+)?(?:submitted\s+)?expense\s+reports?'
      Cat(<<Str("how"), Plus(Set(SpaceSet)), Alt(<<Cat(<<Str("do"), Plus(Set(SpaceSet)), Str("i")>>), Str("to")>>), Plus(Set(SpaceSet)), Str("track"), Plus(Set(SpaceSet)), Opt(Cat(<<Str("my"), Plus(Set(SpaceSet))>>)), Opt(Cat(<<Str("submitted"), Plus(Set(SpaceSet))>>)), Str("expense"), Plus(Set(SpaceSet)), Str("report"), Opt(Str("s"))>>),
      \* r'track\s+(?:my\s+)?(?:submitted\s+)?expense\s+reports?'
      Cat(<<Str("track"), Plus(Set(SpaceSet)), Opt(Cat(<<Str("my"), Plus(Set(SpaceSet))>>)), Opt(Cat(<<Str("submitted"), Plus(Set(SpaceSet))>>)), Str("expense"), Plus(Set(SpaceSet)), Str("report"), Opt(Str("s"))>>),
      \* r'status\s+of\s+(?:my\s+)?expense\s+reports?'
      Cat(<<Str("status"), Plus(Set(SpaceSet)), Str("of"), Plus(Set(SpaceSet)), Opt(Cat(<<Str("my"), Plus(Set(SpaceSet))>>)), Str("expense"), Plus(Set(SpaceSet)), Str("report"), Opt(Str("s"))>>),
      \* r'check\s+(?:my\s+)?expense\s+report\s+status'
      Cat(<<Str("check"), Plus(Set(SpaceSet)), Opt(Cat(<<Str("my"), Plus(Set(SpaceSet))>>)), Str("expense"), Plus(Set(SpaceSet)), Str("report"), Plus(Set(SpaceSet)), Str("status")>>),
      \* r'expense\s+(?:form|forms|submission|guidelines|policy)'
      Cat(<<Str("expense"), Plus(Set(SpaceSet)), Alt(<<Str("form"), Str("forms"), Str("submission"), Str("guidelines"), Str("policy")>>)>>),
      \* r'reimbursement\s+(?:process|procedure|policy)'
      Cat(<<Str("reimbursement"), Plus(Set(SpaceSet)), Str("p"), Alt(<<Str("rocess"), Str("rocedure"), Str("olicy")>>)>>),
      \* r'business\s+expense\s+(?:policy|procedure|guidelines)'
      Cat(<<Str("business"), Plus(Set(SpaceSet)), Str("expense"), Plus(Set(SpaceSet)), Alt(<<Str("policy"), Str("procedure"), Str("guidelines")>>)>>)
    >>

\* analyze_query: safe_policy_contexts (the local list, which shadows self.safe_policy_contexts)
safe_policy_contexts ==
    <<"policy", "policies", "guidelines", "rules", "procedures">>

\* analyze_query: the keywords that keep a query out of the safe policy context
safe_policy_excluded_keywords ==
    <<"salary", "pay", "wage", "compensation", "revenue", "profit">>

\* analyze_query, regex analysis: salary-related keywords
regex_salary_keywords ==
    <<"salary", "compensation", "pay", "earn", "income", "money">>

\* analyze_query, classifier path: salary_keywords
salary_keywords ==
    <<"salary", "compensation", "pay", "earn", "income", "money", "wage", "wages">>

\* analyze_query: self_identity_patterns, searched in query_lower
self_identity_patterns ==
    <<
      \* r'\bwho\s+am\s+i\b'
      Cat(<<WordB, Str("who"), Plus(Set(SpaceSet)), Str("am"), Plus(Set(SpaceSet)), Str("i"), WordB>>),
      \* r'\bwho\s+i\s+am\b'
      Cat(<<WordB, Str("who"), Plus(Set(SpaceSet)), Str("i"), Plus(Set(SpaceSet)), Str("am"), WordB>>),
      \* r'\btell\s+me\s+about\s+myself\b'
      Cat(<<WordB, Str("tell"), Plus(Set(SpaceSet)), Str("me"), Plus(Set(SpaceSet)), Str("about"), Plus(Set(SpaceSet)), Str("myself"), WordB>>),
      \* r'\bmy\s+information\b'
      Cat(<<WordB, Str("my"), Plus(Set(SpaceSet)), Str("information"), WordB>>),
      \* r'\bmy\s+details\b'
      Cat(<<WordB, Str("my"), Plus(Set(SpaceSet)), Str("details"), WordB>>),
      \* r'\babout\s+me\b'
      Cat(<<WordB, Str("about"), Plus(Set(SpaceSet)), Str("me"), WordB>>),
      \* r'\bwhats?\s+my\s+name\b'
      Cat(<<WordB, Str("what"), Opt(Str("s")), Plus(Set(SpaceSet)), Str("my"), Plus(Set(SpaceSet)), Str("name"), WordB>>),
      \* r'\bwhat\s+is\s+my\s+name\b'
      Cat(<<WordB, Str("what"), Plus(Set(SpaceSet)), Str("is"), Plus(Set(SpaceSet)), Str("my"), Plus(Set(SpaceSet)), Str("name"), WordB>>),
      \* r'\bmy\s+name\b'
      Cat(<<WordB, Str("my"), Plus(Set(SpaceSet)), Str("name"), WordB>>)
    >>

\* analyze_query: name_pattern, case-sensitive; group 1 is the first name (group 2 is not used)
name_pattern_list ==
    <<
      \* r'\b([A-Z][a-z]+)\s+([A-Z][a-z]+)\b'
      Cat(<<WordB, Cap(Cat(<<Set(UpperSet), Plus(Set(LowerSet))>>)), Plus(Set(SpaceSet)), Set(UpperSet), Plus(Set(LowerSet)), WordB>>)
    >>

\* _extract_person_details: the name searched in match.group(0) when the pattern has no group
extract_name_list ==
    <<
      \* r'([A-Z][a-z]+(?:\s+[A-Z][a-z]+)?)'
      Cap(Cat(<<Set(LetterSet), Plus(Set(LetterSet)), Opt(Cat(<<Plus(Set(SpaceSet)), Set(LetterSet), Plus(Set(LetterSet))>>))>>))
    >>

\* determine_action: person_query_patterns, searched in the lower-cased query
person_query_patterns ==
    <<
      \* r'\bwho\s+is\s+[a-z]+\s+[a-z]+\b'
      Cat(<<WordB, Str("who"), Plus(Set(SpaceSet)), Str("is"), Plus(Set(SpaceSet)), Plus(Set(LowerSet)), Plus(Set(SpaceSet)), Plus(Set(LowerSet)), WordB>>),
      \* r'\btell\s+me\s+about\s+[a-z]+\s+[a-z]+\b'
      Cat(<<WordB, Str("tell"), Plus(Set(SpaceSet)), Str("me"), Plus(Set(SpaceSet)), Str("about"), Plus(Set(SpaceSet)), Plus(Set(LowerSet)), Plus(Set(SpaceSet)), Plus(Set(LowerSet)), WordB>>),
      \* r'\bwhat\s+do\s+you\s+know\s+about\s+[a-z]+\s+[a-z]+\b'
      Cat(<<WordB, Str("what"), Plus(Set(SpaceSet)), Str("do"), Plus(Set(SpaceSet)), Str("you"), Plus(Set(SpaceSet)), Str("know"), Plus(Set(SpaceSet)), Str("about"), Plus(Set(SpaceSet)), Plus(Set(LowerSet)), Plus(Set(SpaceSet)), Plus(Set(LowerSet)), WordB>>),
      \* r'\binfo\s+on\s+[a-z]+\s+[a-z]+\b'
      Cat(<<WordB, Str("info"), Plus(Set(SpaceSet)), Str("on"), Plus(Set(SpaceSet)), Plus(Set(LowerSet)), Plus(Set(SpaceSet)), Plus(Set(LowerSet)), WordB>>),
      \* r'\bdetails\s+about\s+[a-z]+\s+[a-z]+\b'
      Cat(<<WordB, Str("details"), Plus(Set(SpaceSet)), Str("about"), Plus(Set(SpaceSet)), Plus(Set(LowerSet)), Plus(Set(SpaceSet)), Plus(Set(LowerSet)), WordB>>)
    >>

\* UnifiedLLMAnalyzer._fallback_analysis: financial_keywords
ua_financial_keywords ==
    <<"salary", "compensation", "pay", "earn", "income", "money", "budget", "revenue">>

\* UnifiedLLMAnalyzer._fallback_analysis: policy_keywords
ua_policy_keywords ==
    <<"policy", "procedure", "how to", "submit", "deadline", "guidelines">>

\* UnifiedLLMAnalyzer._fallback_analysis: personal_keywords
ua_personal_keywords ==
    <<"salary", "compensation", "pay", "earn", "makes", "income">>

\* UnifiedLLMAnalyzer._fallback_analysis: a capitalized word, case-sensitive
ua_capitalized_word_list ==
    <<
      \* r'\b[A-Z][a-z]+\b'
      Cat(<<WordB, Set(UpperSet), Plus(Set(LowerSet)), WordB>>)
    >>

\* LLMIntentClassifier._fallback_classify: policy_keywords
ic_policy_keywords ==
    <<"how to", "how do i", "policy", "procedure", "process", "submit", "deadline", "guidelines", "can i claim", "are expenses reimbursable", "expense report", "reimbursement", "approval">>

\* LLMIntentClassifier._fallback_classify: financial_keywords
ic_financial_keywords ==
    <<"budget", "revenue", "profit", "cost", "spent", "total", "amount", "q3", "quarterly">>

\* LLMIntentClassifier._fallback_classify: personal_keywords
ic_personal_keywords ==
    <<"salary", "compensation", "pay", "earn", "makes", "income", "make", "annually", "yearly">>

\* LLMIntentClassifier._fallback_classify: expense_policy_patterns (substrings)
ic_expense_policy_patterns ==
    <<"how do i submit expense", "can i claim expenses", "are personal expenses reimbursable", "what expenses can i claim", "deadline for submitting", "expense approval", "reimbursement process">>

\* LLMIntentClassifier._fallback_classify: salary_query_patterns (substrings)
ic_salary_query_patterns ==
    <<"how much does", "what does", "how much money does", "what is", "salary", "tell me what", "annually", "yearly", "bracket", "figure range", "100k+", "$100k">>

\* LLMIntentClassifier._fallback_classify: salary_context_patterns, searched in query_lower
ic_salary_context_patterns ==
    <<
      \* r'how much does .+ make'
      Cat(<<Str("how much does "), Plus(AnyChar), Str(" make")>>),
      \* r'what does .+ earn'
      Cat(<<Str("what does "), Plus(AnyChar), Str(" earn")>>),
      \* r'tell me what .+ annually'
      Cat(<<Str("tell me what "), Plus(AnyChar), Str(" annually")>>),
      \* r'what .+ annually'
      Cat(<<Str("what "), Plus(AnyChar), Str(" annually")>>),
      \* r'.+ salary'
      Cat(<<Plus(AnyChar), Str(" salary")>>),
      \* r'.+ in the .+ bracket'
      Cat(<<Plus(AnyChar), Str(" in the "), Plus(AnyChar), Str(" bracket")>>),
      \* r'.+ in the .+ range'
      Cat(<<Plus(AnyChar), Str(" in the "), Plus(AnyChar), Str(" range")>>),
      \* r'does .+ fall in'
      Cat(<<Str("does "), Plus(AnyChar), Str(" fall in")>>),
      \* r'is .+ in the'
      Cat(<<Str("is "), Plus(AnyChar), Str(" in the")>>)
    >>

\* LLMIntentClassifier._fallback_classify: person_name_patterns, case-sensitive
ic_person_name_patterns ==
    <<
      \* r'\b[A-Z][a-z]+\s+[A-Z][a-z]+\b'
      Cat(<<WordB, Set(UpperSet), Plus(Set(LowerSet)), Plus(Set(SpaceSet)), Set(UpperSet), Plus(Set(LowerSet)), WordB>>),
      \* r'\b[A-Z][a-z]+\b'
      Cat(<<WordB, Set(UpperSet), Plus(Set(LowerSet)), WordB>>)
    >>


\* The number of capturing groups of a pattern (match.groups() is empty iff 0)
RECURSIVE Groups(_), GroupsAll(_)
Groups(r) ==
    CASE r.t = "cap" -> 1 + Groups(r.r)
      [] r.t = "rep" -> Groups(r.r)
      [] r.t \in {"cat", "alt"} -> GroupsAll(r.rs)
      [] OTHER -> 0
GroupsAll(rs) == IF rs = <<>> THEN 0 ELSE Groups(Head(rs)) + GroupsAll(Tail(rs))

compiled_financial_patterns == CompileAll(financial_patterns)
compiled_self_patterns == CompileAll(self_reference_patterns)
compiled_person_patterns == CompileAll(person_reference_patterns)
compiled_aggregate_patterns == CompileAll(aggregate_salary_patterns)
compiled_expense_policy_patterns == CompileAll(expense_policy_patterns)
compiled_self_identity_patterns == CompileAll(self_identity_patterns)
name_pattern == Compile(name_pattern_list[1])
extract_name_pattern == Compile(extract_name_list[1])
compiled_person_query_patterns == CompileAll(person_query_patterns)
ua_capitalized_word == Compile(ua_capitalized_word_list[1])
compiled_ic_salary_context_patterns == CompileAll(ic_salary_context_patterns)
compiled_ic_person_name_patterns == CompileAll(ic_person_name_patterns)

(***************************************************************************)
(* The searches the analyzer and the classifier fallbacks run on a query   *)
(***************************************************************************)

\* Python's None where the other values are records or dicts, and where they are
\* strings
None == [None |-> TRUE]
NoneStr == "<None>"

\* the string of a sequence of characters
RECURSIVE ToStr(_)
ToStr(cs) ==
    IF cs = <<>> THEN ""
    ELSE IF Len(cs) = 1 THEN cs[1]
    ELSE ToStr(SubSeq(cs, 1, Len(cs) \div 2)) \o ToStr(SubSeq(cs, Len(cs) \div 2 + 1, Len(cs)))

\* str.lower() and the truth value of an optional string
lower(str) == ToStr(Lower(Chars(str)))
Truthy(str) == str # NoneStr /\ str # ""
\* an optional string inside an f-string
Format(str) == IF str = NoneStr THEN "None" ELSE str

\* index of the first pattern of ps that matches s, 0 if none does
RECURSIVE FirstMatching(_, _, _)
FirstMatching(ps, s, k) ==
    IF k > Len(ps) THEN 0
    ELSE IF Matches(ps[k], s) THEN k ELSE FirstMatching(ps, s, k + 1)

\* What analyze_query, _extract_person_details, _check_self_reference and the two
\* classifier fallbacks find in a query: each field is one condition (or one match)
\* of that code.
QueryFacts(query) ==
    LET query_lower == Lower(query)
        pk == FirstMatching(compiled_person_patterns, query_lower, 1)
        pm == IF pk = 0 THEN NoMatch ELSE Search(compiled_person_patterns[pk], query_lower)
        nm == Search(name_pattern, query)
    IN  [ \* analyze_query
          expense_policy |-> AnyMatches(compiled_expense_policy_patterns, query_lower),
          has_safe_context |-> ContainsAny(query_lower, safe_policy_contexts),
          safe_excluded |-> ContainsAny(query_lower, safe_policy_excluded_keywords),
          aggregate |-> AnyMatches(compiled_aggregate_patterns, query_lower),
          has_financial_keywords |-> ContainsAny(query_lower, financial_keywords),
          has_financial_patterns |->
              AnyMatches(SubSeq(compiled_financial_patterns, 1, 5), query_lower),
          any_financial_pattern |-> AnyMatches(compiled_financial_patterns, query_lower),
          regex_salary_keyword |-> ContainsAny(query_lower, regex_salary_keywords),
          salary_keyword |-> ContainsAny(query_lower, salary_keywords),
          self_reference |-> AnyMatches(compiled_self_patterns, query_lower),
          self_identity |-> AnyMatches(compiled_self_identity_patterns, query_lower),
          \* the first person pattern that matches: whether it has a group, group(1).strip()
          \* and the name found in group(0)
          person |-> pk # 0,
          person_groups |-> pk # 0 /\ Groups(compiled_person_patterns[pk].re) > 0,
          person_group1 |-> IF pk = 0 THEN "" ELSE ToStr(Strip(Group1(query, pm))),
          person_group0_name |->
              IF pk = 0 THEN NoneStr
              ELSE LET g0 == Group0(query, pm)
                       m0 == ISearch(extract_name_pattern, g0)
                   IN  IF m0 = NoMatch THEN NoneStr ELSE ToStr(Group1(g0, m0)),
          \* name_pattern.finditer(query): whether there is a match, group(1) of the first
          name |-> nm # NoMatch,
          name_group1 |-> IF nm = NoMatch THEN "" ELSE ToStr(Group1(query, nm)),
          \* UnifiedLLMAnalyzer._fallback_analysis
          ua_personal |-> ContainsAny(query_lower, ua_personal_keywords),
          ua_capitalized |-> Matches(ua_capitalized_word, query),
          ua_policy |-> ContainsAny(query_lower, ua_policy_keywords),
          ua_financial |-> ContainsAny(query_lower, ua_financial_keywords),
          \* LLMIntentClassifier._fallback_classify
          ic_person_reference |-> AnyMatches(compiled_ic_person_name_patterns, query),
          ic_salary_context |-> AnyMatches(compiled_ic_salary_context_patterns, query_lower),
          ic_salary_keywords |-> ContainsAny(query_lower, ic_salary_query_patterns),
          ic_expense_policy |-> ContainsAny(query_lower, ic_expense_policy_patterns),
          ic_policy |-> ContainsAny(query_lower, ic_policy_keywords),
          ic_financial |-> ContainsAny(query_lower, ic_financial_keywords),
          ic_personal |-> ContainsAny(query_lower, ic_personal_keywords) ]

(***************************************************************************)
(* Bounds of the model                                                     *)
(***************************************************************************)

\* a query is at most this many phrases of QueryPhrases
MaxPhrases == 2
\* QueryCache(max_size, ttl_hours), scaled down from the defaults 1000 and 24
max_size == 2
ttl_hours == 2

(***************************************************************************)
(* Classifiers (llm_modules)                                               *)
(***************************************************************************)

\* QueryIntent values
Intents == {"policy_procedure", "financial_data", "personal_data", "general_info", "unknown"}

\* Confidence in hundredths: 0.7 is 70, the threshold 0.8 is 80.
FallbackConfidence == 70
ConfidenceThreshold == 80
\* the confidences a backend reply carries here
Confidences == {70, 80, 90}

\* The outcome of one call of the text-generation backend: a failure (exception,
\* timeout, malformed or incomplete JSON, an unknown category) or a well-formed
\* reply.  The fields of a reply that the filter reads are drawn from these sets;
\* the others have one value each.
BackendFailure == [ok |-> FALSE]
BackendReplies ==
    [ok : {TRUE}, intent : Intents, confidence : Confidences,
     is_policy_related : BOOLEAN, is_financial_sensitive : BOOLEAN]
BackendOutcomes == {BackendFailure} \cup BackendReplies

\* UnifiedLLMAnalyzer._unified_llm_analysis on a well-formed reply
unified_llm_analysis(reply) ==
    [intent |-> reply.intent,
     confidence |-> reply.confidence,
     reasoning |-> "reasoning of the reply",
     keywords |-> <<>>,
     is_policy_related |-> reply.is_policy_related,
     is_financial_sensitive |-> reply.is_financial_sensitive,
     overall_risk |-> "risk of the reply",
     contains_sensitive_data |-> FALSE,
     detected_issues |-> <<>>,
     recommendation |-> "recommendation of the reply",
     should_allow |-> TRUE,
     filter_action |-> "filter action of the reply",
     security_notes |-> "reasoning of the reply"]

\* UnifiedLLMAnalyzer._fallback_analysis
fallback_analysis(f, user_role) ==
    LET intent ==
            IF f.ua_personal /\ f.ua_capitalized THEN "personal_data"
            ELSE IF f.ua_policy THEN "policy_procedure"
            ELSE IF f.ua_financial THEN "financial_data"
            ELSE "general_info"
        is_financial_sensitive == intent \in {"personal_data", "financial_data"}
        overall_risk ==
            CASE intent = "personal_data" -> "high_risk"
              [] intent = "financial_data" -> "medium_risk"
              [] OTHER -> "low_risk"
        should_allow ==
            CASE intent = "personal_data" -> FALSE
              [] intent = "financial_data" -> user_role \in {"Manager", "Admin"}
              [] OTHER -> TRUE
        filter_action ==
            CASE intent = "personal_data" -> "deny"
              [] intent = "financial_data" ->
                   IF should_allow THEN "allow_with_screening" ELSE "deny"
              [] OTHER -> "allow"
    IN  [intent |-> intent,
         confidence |-> FallbackConfidence,
         reasoning |-> "Fallback pattern-based classification",
         keywords |-> <<>>,
         is_policy_related |-> intent = "policy_procedure",
         is_financial_sensitive |-> is_financial_sensitive,
         overall_risk |-> overall_risk,
         contains_sensitive_data |-> is_financial_sensitive,
         detected_issues |->
             IF is_financial_sensitive THEN <<"Potential sensitive content">> ELSE <<>>,
         recommendation |->
             CASE filter_action = "deny" -> "DENY"
               [] filter_action = "allow" -> "ALLOW"
               [] OTHER -> "ALLOW_WITH_SCREENING",
         should_allow |-> should_allow,
         filter_action |-> filter_action,
         security_notes |-> "Fallback analysis based on keyword patterns"]

\* UnifiedLLMAnalyzer.__init__: the statistics
UnifiedStats0 == [total_analyses |-> 0, unified_calls |-> 0, fallback_calls |-> 0, errors |-> 0]

\* an analyze_query_and_response that calls the backend again when the call fails
analyze_query_and_response_retrying(ua, f, user_role, outcome) ==
    LET st1 == [ua.stats EXCEPT !.total_analyses = @ + 1] IN
    IF ~ua.client
    THEN [result |-> fallback_analysis(f, user_role),
          analyzer |-> [ua EXCEPT !.stats = [st1 EXCEPT !.fallback_calls = @ + 1]],
          backend_calls |-> 0]
    ELSE IF outcome.ok
    THEN [result |-> unified_llm_analysis(outcome),
          analyzer |-> [ua EXCEPT !.stats = [st1 EXCEPT !.unified_calls = @ + 1]],
          backend_calls |-> 1]
    ELSE [result |-> fallback_analysis(f, user_role),
          analyzer |-> [ua EXCEPT !.stats =
                           [st1 EXCEPT !.errors = @ + 1, !.fallback_calls = @ + 1]],
          backend_calls |-> 2]

\* UnifiedLLMAnalyzer.analyze_query_and_response: the result, the analyzer after the
\* call and the number of backend calls made.  avg_response_time is not kept.
analyze_query_and_response(ua, f, user_role, outcome) ==
    LET st1 == [ua.stats EXCEPT !.total_analyses = @ + 1] IN
    IF ~ua.client
    THEN [result |-> fallback_analysis(f, user_role),
          analyzer |-> [ua EXCEPT !.stats = [st1 EXCEPT !.fallback_calls = @ + 1]],
          backend_calls |-> 0]
    ELSE IF outcome.ok
    THEN [result |-> unified_llm_analysis(outcome),
          analyzer |-> [ua EXCEPT !.stats = [st1 EXCEPT !.unified_calls = @ + 1]],
          backend_calls |-> 1]
    ELSE [result |-> fallback_analysis(f, user_role),
          analyzer |-> [ua EXCEPT !.stats =
                           [st1 EXCEPT !.errors = @ + 1, !.fallback_calls = @ + 1]],
          backend_calls |-> 1]

\* IntentClassification
IntentClassification(intent, confidence, reasoning, keywords, is_policy_related, is_financial_sensitive) ==
    [intent |-> intent, confidence |-> confidence, reasoning |-> reasoning,
     keywords |-> keywords, is_policy_related |-> is_policy_related,
     is_financial_sensitive |-> is_financial_sensitive]

\* LLMIntentClassifier._llm_classify on a well-formed reply
llm_classify(reply) ==
    IntentClassification(reply.intent, reply.confidence, "reasoning of the reply", <<>>,
                         reply.is_policy_related, reply.is_financial_sensitive)

\* LLMIntentClassifier._fallback_classify
fallback_classify(f) ==
    IF f.ic_person_reference /\ (f.ic_salary_context \/ f.ic_salary_keywords)
    THEN IntentClassification("personal_data", FallbackConfidence,
             "Detected salary query about person (fallback classification)",
             <<>>, FALSE, TRUE)
    ELSE IF f.ic_expense_policy \/ f.ic_policy
    THEN IntentClassification("policy_procedure", FallbackConfidence,
             "Detected policy/procedure query (fallback classification)",
             <<>>, TRUE, FALSE)
    ELSE IF f.ic_financial
    THEN IntentClassification("financial_data", FallbackConfidence,
             "Detected financial data query (fallback classification)",
             <<>>, FALSE, TRUE)
    ELSE IF f.ic_personal
    THEN IntentClassification("personal_data", FallbackConfidence,
             "Detected personal data query (fallback classification)",
             <<>>, FALSE, TRUE)
    ELSE IntentClassification("general_info", FallbackConfidence,
             "General information query (fallback classification)",
             <<>>, FALSE, FALSE)

\* QueryCache: the dict in insertion order, each item a key with its entry.
\* _get_cache_key: the MD5 digest stands for the text it digests.
get_cache_key(query) == ToStr(Strip(Lower(Chars(query))))

RECURSIVE CacheIndexFrom(_, _, _)
CacheIndexFrom(cache, key, i) ==
    IF i > Len(cache) THEN 0
    ELSE IF cache[i].key = key THEN i ELSE CacheIndexFrom(cache, key, i + 1)
\* position of key in the dict, 0 if it is not in it
CacheIndex(cache, key) == CacheIndexFrom(cache, key, 1)

\* del cache[key] at position i
CacheDel(cache, i) == SubSeq(cache, 1, i - 1) \o SubSeq(cache, i + 1, Len(cache))

\* a get that moves the entry it returns to the present
QueryCache_get_refreshing(cache, query, now) ==
    LET i == CacheIndex(cache, get_cache_key(query)) IN
    IF i = 0 THEN [result |-> None, cache |-> cache]
    ELSE IF now - cache[i].timestamp < ttl_hours
    THEN [result |-> cache[i].classification,
          cache |-> [cache EXCEPT ![i].timestamp = now]]
    ELSE [result |-> None, cache |-> CacheDel(cache, i)]

\* a get that still returns an entry whose age is the time-to-live
QueryCache_get_at_ttl(cache, query, now) ==
    LET i == CacheIndex(cache, get_cache_key(query)) IN
    IF i = 0 THEN [result |-> None, cache |-> cache]
    ELSE IF now - cache[i].timestamp <= ttl_hours
    THEN [result |-> cache[i].classification, cache |-> cache]
    ELSE [result |-> None, cache |-> CacheDel(cache, i)]

\* QueryCache.get
QueryCache_get(cache, query, now) ==
    LET i == CacheIndex(cache, get_cache_key(query)) IN
    IF i = 0 THEN [result |-> None, cache |-> cache]
    ELSE IF now - cache[i].timestamp < ttl_hours
    THEN [result |-> cache[i].classification, cache |-> cache]
    ELSE [result |-> None, cache |-> CacheDel(cache, i)]

\* min(cache.keys(), key=timestamp): the first key among those of least timestamp
OldestIndex(cache) ==
    CHOOSE i \in 1..Len(cache) :
        /\ \A j \in 1..Len(cache) : cache[i].timestamp <= cache[j].timestamp
        /\ \A j \in 1..(i - 1) : cache[j].timestamp > cache[i].timestamp

\* a store that evicts nothing
QueryCache_store_without_eviction(cache, query, classification, now) ==
    LET item == [key |-> get_cache_key(query), classification |-> classification,
                 timestamp |-> now]
        i == CacheIndex(cache, item.key)
    IN  IF i = 0 THEN Append(cache, item) ELSE [cache EXCEPT ![i] = item]

\* QueryCache.store (max_size >= 1)
QueryCache_store(cache, query, classification, now) ==
    LET key == get_cache_key(query)
        kept == IF Len(cache) >= max_size THEN CacheDel(cache, OldestIndex(cache)) ELSE cache
        item == [key |-> key, classification |-> classification, timestamp |-> now]
        i == CacheIndex(kept, key)
    IN  IF i = 0 THEN Append(kept, item) ELSE [kept EXCEPT ![i] = item]

\* LLMIntentClassifier.__init__: the statistics
ClassifierStats0 ==
    [total_queries |-> 0, cache_hits |-> 0, llm_calls |-> 0,
     classification_errors |-> 0, fallback_calls |-> 0]

\* a classify_intent that always goes to its fallback and is less confident of it
\* from the second query on
classify_intent_less_confident(clf, f, query, outcome, now) ==
    [result |-> [fallback_classify(f) EXCEPT
                    !.confidence = IF clf.stats.total_queries = 0 THEN @ ELSE @ - 10],
     classifier |-> [clf EXCEPT !.stats.total_queries = @ + 1,
                                !.stats.fallback_calls = @ + 1],
     backend_calls |-> 0]

\* LLMIntentClassifier.classify_intent (use_cache = True): the result, the classifier
\* after the call and the number of backend calls made
classify_intent(clf, f, query, outcome, now) ==
    LET st1 == [clf.stats EXCEPT !.total_queries = @ + 1]
        got == QueryCache_get(clf.cache, query, now)
    IN  IF got.result # None
        THEN [result |-> got.result,
              classifier |-> [clf EXCEPT !.stats = [st1 EXCEPT !.cache_hits = @ + 1],
                                         !.cache = got.cache],
              backend_calls |-> 0]
        ELSE IF ~clf.client
        THEN [result |-> fallback_classify(f),
              classifier |-> [clf EXCEPT !.stats = [st1 EXCEPT !.fallback_calls = @ + 1],
                                         !.cache = got.cache],
              backend_calls |-> 0]
        ELSE IF outcome.ok
        THEN LET classification == llm_classify(outcome) IN
             [result |-> classification,
              classifier |-> [clf EXCEPT !.stats = [st1 EXCEPT !.llm_calls = @ + 1],
                                         !.cache = QueryCache_store(got.cache, query,
                                                                    classification, now)],
              backend_calls |-> 1]
        ELSE [result |-> fallback_classify(f),
              classifier |-> [clf EXCEPT !.stats =
                                 [st1 EXCEPT !.classification_errors = @ + 1],
                                         !.cache = got.cache],
              backend_calls |-> 1]

(***************************************************************************)
(* The queries and roles of the model                                      *)
(***************************************************************************)

\* The phrases queries are made of: each brings one of the things the analyzer
\* looks for (an expense-policy pattern, a safe-policy keyword, an aggregate
\* pattern, a self reference, a person pattern, a financial pattern or keyword).
QueryPhrases ==
    <<"expense policy", "rules", "highest earner", "what's my salary",
      "What is Lisa Park's salary", "Q3 revenue", "who is Lisa Park">>

\* a query that is in none of the patterns at once: the end-to-end scenario
ScenarioQuery == "Is Siddarth Bandi in the $100k+ bracket?"

RECURSIVE QueriesOf(_)
\* the queries of n phrases, joined by single spaces
QueriesOf(n) ==
    IF n = 1 THEN {QueryPhrases[i] : i \in 1..Len(QueryPhrases)}
    ELSE {q \o " " \o QueryPhrases[i] : q \in QueriesOf(n - 1), i \in 1..Len(QueryPhrases)}

\* a salary query whose person only the scan for capitalized names finds
NameScanQuery == "Lisa Park money"

\* a salary keyword alone: no pattern finds a person or a self reference
KeywordQuery == "salary"

Queries ==
    UNION {QueriesOf(n) : n \in 1..MaxPhrases}
        \cup {ScenarioQuery, NameScanQuery, KeywordQuery}

\* a prompt that is a greeting once trimmed and lower-cased
GreetingPrompt == " Hello there"
Prompts == Queries \cup {GreetingPrompt}

\* UserRole values (role_str of the orchestrator)
Roles == {"Junior", "Senior", "Manager", "Admin"}
Emails == {"lisa.park@techconsult.com"}

(***************************************************************************)
(* FinancialContentFilter (utils/financial_filter.py)                      *)
(***************************************************************************)

\* FilterAction members and their values
FilterActions ==
    {"ALLOW", "ALLOW_WITH_REDACTION", "ALLOW_WITH_EMAIL_CHECK", "ALLOW_WITH_SCREENING", "DENY"}
FilterActionValue(action) ==
    CASE action = "ALLOW" -> "allow"
      [] action = "ALLOW_WITH_REDACTION" -> "allow_with_redaction"
      [] action = "ALLOW_WITH_EMAIL_CHECK" -> "allow_with_email_check"
      [] action = "ALLOW_WITH_SCREENING" -> "allow_with_screening"
      [] action = "DENY" -> "deny"

\* UnifiedLLMAnalyzer(), LLMIntentClassifier() and LLMGuardrails() as the filter
\* constructs them; client_ok says whether the client could be created
UnifiedLLMAnalyzer(client_ok) == [client |-> client_ok, stats |-> UnifiedStats0]
LLMIntentClassifier(client_ok) == [client |-> client_ok, cache |-> <<>>, stats |-> ClassifierStats0]
LLMGuardrails(client_ok) == [client |-> client_ok]

\* FinancialContentFilter.__init__; LLM_AVAILABLE and GUARDRAILS_AVAILABLE are
\* the module's flags (GUARDRAILS_AVAILABLE = LLM_AVAILABLE when the import works)
FinancialContentFilter(audit_log_enabled, use_llm_classification, use_guardrails, use_unified_analyzer, LLM_AVAILABLE, client_ok) ==
    LET GUARDRAILS_AVAILABLE == LLM_AVAILABLE
        unified == use_unified_analyzer /\ LLM_AVAILABLE
        llm == IF unified THEN FALSE ELSE use_llm_classification /\ LLM_AVAILABLE
        guard == IF unified THEN FALSE ELSE use_guardrails /\ GUARDRAILS_AVAILABLE
    IN  [audit_log_enabled |-> audit_log_enabled,
         use_llm_classification |-> llm,
         use_guardrails |-> guard,
         use_unified_analyzer |-> unified,
         unified_analyzer |-> IF unified THEN UnifiedLLMAnalyzer(client_ok) ELSE None,
         llm_classifier |-> IF llm THEN LLMIntentClassifier(client_ok) ELSE None,
         guardrails |-> IF guard THEN LLMGuardrails(client_ok) ELSE None]

\* analyze_query: the analysis dict as it is created
NewAnalysis(query, user_email, user_role) ==
    [original_query |-> query,
     is_financial |-> FALSE,
     is_salary_related |-> FALSE,
     is_self_data_request |-> FALSE,
     is_about_person |-> FALSE,
     is_person_salary_query |-> FALSE,
     is_aggregate_salary_query |-> FALSE,
     target_person |-> NoneStr,
     is_policy_context |-> FALSE,
     user_email |-> user_email,
     user_role |-> user_role,
     llm_classification |-> None]

\* FinancialContentFilter._extract_person_details
extract_person_details(f, analysis) ==
    IF ~f.person THEN analysis
    ELSE IF f.person_groups
    THEN [analysis EXCEPT !.is_about_person = TRUE, !.target_person = f.person_group1]
    ELSE IF f.person_group0_name # NoneStr
    THEN [analysis EXCEPT !.is_about_person = TRUE, !.target_person = f.person_group0_name]
    ELSE [analysis EXCEPT !.is_about_person = TRUE]

\* a _check_self_reference that finds no self reference
check_self_reference_never(f, analysis) == analysis

\* FinancialContentFilter._check_self_reference
check_self_reference(f, analysis) ==
    IF f.self_reference THEN [analysis EXCEPT !.is_self_data_request = TRUE] ELSE analysis

\* analyze_query: the flags set from the classifier's intent
IntentFlags(analysis, classification) ==
    CASE classification.intent = "policy_procedure" ->
             [analysis EXCEPT !.llm_classification = classification,
                              !.is_policy_context = TRUE, !.is_financial = FALSE]
      [] classification.intent = "financial_data" ->
             [analysis EXCEPT !.llm_classification = classification,
                              !.is_financial = TRUE]
      [] classification.intent = "personal_data" ->
             [analysis EXCEPT !.llm_classification = classification,
                              !.is_financial = TRUE, !.is_salary_related = TRUE,
                              !.is_about_person = TRUE]
      [] OTHER -> [analysis EXCEPT !.llm_classification = classification]

\* analyze_query: the return of a classifier result of high confidence
HighConfidence(f, analysis, classification) ==
    LET PersonSalary(a) ==
            IF a.is_about_person /\ Truthy(a.target_person)
            THEN [a EXCEPT !.is_person_salary_query = TRUE]
            ELSE a
        Salary(a) ==
            IF classification.intent = "personal_data"
               /\ classification.is_financial_sensitive /\ f.salary_keyword
            THEN PersonSalary([a EXCEPT !.is_salary_related = TRUE, !.is_financial = TRUE])
            ELSE a
    IN  Salary(check_self_reference(f, extract_person_details(f, analysis)))

\* analyze_query: the regex-based analysis, one operator per step of the code
RegexAnalysis(f, analysis) ==
    LET Keywords(a) ==
            IF f.has_financial_keywords THEN [a EXCEPT !.is_financial = TRUE] ELSE a
        Patterns(a) ==
            IF f.any_financial_pattern
            THEN [a EXCEPT !.is_financial = TRUE, !.is_salary_related = TRUE]
            ELSE a
        SalaryKeywords(a) ==
            IF f.regex_salary_keyword THEN [a EXCEPT !.is_salary_related = TRUE] ELSE a
        SelfReference(a) ==
            IF f.self_reference \/ f.self_identity
            THEN [a EXCEPT !.is_self_data_request = TRUE]
            ELSE a
        Person(a) ==
            IF ~f.person THEN a
            ELSE IF f.person_groups
            THEN [a EXCEPT !.is_about_person = TRUE, !.target_person = f.person_group1]
            ELSE [a EXCEPT !.is_about_person = TRUE]
        PersonSalary(a) ==
            IF a.is_about_person /\ a.is_salary_related
            THEN [a EXCEPT !.is_person_salary_query = TRUE]
            ELSE a
        Names(a) ==
            IF ~Truthy(a.target_person) /\ f.name /\ a.is_salary_related
            THEN [a EXCEPT !.target_person = f.name_group1, !.is_about_person = TRUE]
            ELSE a
        Ensure(a) ==
            IF a.is_financial THEN a
            ELSE IF f.any_financial_pattern
                    \/ (a.is_salary_related
                        /\ (a.is_self_data_request \/ a.is_about_person)
                        /\ ~a.is_policy_context)
            THEN [a EXCEPT !.is_financial = TRUE]
            ELSE a
    IN  Ensure(Names(PersonSalary(Person(SelfReference(SalaryKeywords(Patterns(
            Keywords(analysis))))))))

\* an analyze_query that also returns early at the threshold itself
AfterClassification_at_threshold(f, analysis, classification) ==
    IF classification.confidence >= ConfidenceThreshold
    THEN HighConfidence(f, analysis, classification)
    ELSE RegexAnalysis(f, analysis)

\* analyze_query: what follows the classifier's result
AfterClassification(f, analysis, classification) ==
    IF classification.confidence > ConfidenceThreshold
    THEN HighConfidence(f, analysis, classification)
    ELSE RegexAnalysis(f, analysis)

\* an analyze_query without its policy, aggregate and fast-path returns and without
\* classifier
analyze_query_without_early_returns(flt, f, query, user_email, user_role, outcome, now) ==
    [analysis |-> RegexAnalysis(f, NewAnalysis(query, user_email, user_role)),
     filter |-> flt,
     backend_calls |-> 0]

\* FinancialContentFilter.analyze_query: the analysis returned, the filter after
\* the call (the classifier objects keep statistics and a cache) and the number
\* of backend calls made.  f is QueryFacts of the query, outcome is what the
\* backend does if it is called.
analyze_query(flt, f, query, user_email, user_role, outcome, now) ==
    LET analysis == NewAnalysis(query, user_email, user_role)
        Return(a) == [analysis |-> a, filter |-> flt, backend_calls |-> 0]
    IN  IF f.expense_policy
        THEN Return([analysis EXCEPT !.is_policy_context = TRUE,
                                     !.is_financial = FALSE, !.is_salary_related = FALSE])
        ELSE IF f.has_safe_context /\ ~f.safe_excluded
        THEN Return([analysis EXCEPT !.is_policy_context = TRUE,
                                     !.is_financial = FALSE, !.is_salary_related = FALSE])
        ELSE IF f.aggregate
        THEN Return([analysis EXCEPT !.is_aggregate_salary_query = TRUE,
                                     !.is_salary_related = TRUE, !.is_financial = TRUE])
        ELSE IF ~f.has_financial_keywords /\ ~f.has_financial_patterns
        THEN Return([extract_person_details(f, analysis) EXCEPT
                         !.is_financial = FALSE, !.is_salary_related = FALSE])
        ELSE IF flt.use_unified_analyzer /\ flt.unified_analyzer # None
        THEN LET Classification(unified_result) ==
                     IntentClassification(unified_result.intent, unified_result.confidence,
                         unified_result.reasoning, unified_result.keywords,
                         unified_result.is_policy_related,
                         unified_result.is_financial_sensitive)
                 Analyzed(classification) ==
                     AfterClassification(f, IntentFlags(analysis, classification),
                                         classification)
                 Called(call) ==
                     [analysis |-> Analyzed(Classification(call.result)),
                      filter |-> [flt EXCEPT !.unified_analyzer = call.analyzer],
                      backend_calls |-> call.backend_calls]
             IN  Called(analyze_query_and_response(flt.unified_analyzer, f, user_role,
                                                   outcome))
        ELSE IF flt.use_llm_classification /\ flt.llm_classifier # None
        THEN LET Analyzed(llm_result) ==
                     AfterClassification(f, IntentFlags(analysis, llm_result), llm_result)
                 Called(call) ==
                     [analysis |-> Analyzed(call.result),
                      filter |-> [flt EXCEPT !.llm_classifier = call.classifier],
                      backend_calls |-> call.backend_calls]
             IN  Called(classify_intent(flt.llm_classifier, f, query, outcome, now))
        ELSE Return(RegexAnalysis(f, analysis))

\* the decision dict of determine_action
Decision(action, reason) == [action |-> action, reason |-> reason]

\* determine_action with the role as it is compared given, with or without the
\* person-salary gate, with or without the Junior/Senior carve-out
determine_action_with(query_analysis, user_role, gate, carve_out) ==
    IF query_analysis.is_policy_context
    THEN Decision("ALLOW", "Policy-related query - no financial data filtering needed")
    ELSE IF ~query_analysis.is_financial
    THEN Decision("ALLOW_WITH_SCREENING", "General query - will be screened for sensitive content")
    ELSE IF query_analysis.is_aggregate_salary_query
    THEN Decision("DENY", "Aggregate salary queries are not permitted for any user role")
    ELSE IF query_analysis.is_self_data_request
    THEN Decision("ALLOW_WITH_EMAIL_CHECK",
             "Self-data request - will verify user identity in documents")
    ELSE IF gate /\ query_analysis.is_person_salary_query
    THEN IF user_role \in {"admin", "manager"}
         THEN Decision("ALLOW_WITH_REDACTION", "Admin/Manager access with salary redaction")
         ELSE Decision("DENY", "Insufficient privileges")
    ELSE IF carve_out /\ user_role \in {"junior", "senior"}
    THEN IF query_analysis.is_person_salary_query
         THEN Decision("DENY", "Access to salary information is restricted")
         ELSE Decision("ALLOW_WITH_SCREENING", "general content screening applied")
    ELSE IF user_role \in {"admin", "manager"}
    THEN IF query_analysis.is_salary_related /\ query_analysis.is_about_person
         THEN Decision("ALLOW_WITH_REDACTION", "individual information with salary redaction")
         ELSE Decision("ALLOW", "accessing company financial data")
    ELSE Decision("DENY", "Insufficient privileges to access detailed financial information")

\* a determine_action without the Junior/Senior carve-out
determine_action_without_carve_out(query_analysis) ==
    determine_action_with(query_analysis, lower(query_analysis.user_role), TRUE, FALSE)

\* a determine_action without the person-salary role gate
determine_action_without_gate(query_analysis) ==
    determine_action_with(query_analysis, lower(query_analysis.user_role), FALSE, TRUE)

\* a determine_action that compares the role as it is written
determine_action_case_sensitive(query_analysis) ==
    determine_action_with(query_analysis, query_analysis.user_role, TRUE, TRUE)

\* a determine_action that takes a role it does not know for a manager
determine_action_open_to_other_roles(query_analysis) ==
    determine_action_with(query_analysis,
        IF lower(query_analysis.user_role) \in {"junior", "senior", "manager", "admin"}
        THEN lower(query_analysis.user_role) ELSE "manager",
        TRUE, TRUE)

\* a determine_action without the rule for aggregate salary queries
determine_action_without_aggregate_rule(query_analysis) ==
    IF /\ ~query_analysis.is_policy_context
       /\ query_analysis.is_financial
       /\ query_analysis.is_aggregate_salary_query
       /\ ~query_analysis.is_self_data_request
       /\ ~query_analysis.is_person_salary_query
       /\ lower(query_analysis.user_role) \in {"junior", "senior"}
    THEN Decision("DENY", "Access to salary information is restricted")
    ELSE determine_action_with([query_analysis EXCEPT !.is_aggregate_salary_query = FALSE],
                               lower(query_analysis.user_role), TRUE, TRUE)

\* FinancialContentFilter.determine_action
determine_action(query_analysis) ==
    LET user_role == lower(query_analysis.user_role)
        target_person == Format(query_analysis.target_person)
    IN  IF query_analysis.is_policy_context
        THEN Decision("ALLOW", "Policy-related query - no financial data filtering needed")
        ELSE IF ~query_analysis.is_financial
        THEN IF IAnyMatches(compiled_person_query_patterns,
                            Chars(query_analysis.original_query))
             THEN Decision("ALLOW_WITH_SCREENING",
                      "Person information query - will be screened for salary content")
             ELSE Decision("ALLOW_WITH_SCREENING",
                      "General query - will be screened for sensitive content")
        ELSE IF query_analysis.is_aggregate_salary_query
        THEN Decision("DENY", "Aggregate salary queries are not permitted for any user role")
        ELSE IF query_analysis.is_self_data_request
        THEN Decision("ALLOW_WITH_EMAIL_CHECK",
                 "Self-data request - will verify user identity in documents")
        ELSE IF query_analysis.is_person_salary_query
        THEN IF user_role \in {"admin", "manager"}
             THEN Decision("ALLOW_WITH_REDACTION",
                      "Admin/Manager access to " \o target_person
                          \o "'s information with salary redaction")
             ELSE Decision("DENY",
                      "Insufficient privileges to access " \o target_person
                          \o "'s salary information")
        ELSE IF user_role \in {"junior", "senior"}
        THEN IF query_analysis.is_person_salary_query
                \/ query_analysis.is_aggregate_salary_query
             THEN Decision("DENY", "Access to salary information is restricted")
             ELSE Decision("ALLOW_WITH_SCREENING",
                      query_analysis.user_role \o " role - general content screening applied")
        ELSE IF query_analysis.is_financial
        THEN IF user_role \in {"admin", "manager"}
             THEN IF query_analysis.is_salary_related /\ query_analysis.is_about_person
                  THEN Decision("ALLOW_WITH_REDACTION",
                           query_analysis.user_role
                               \o " access to individual information with salary redaction")
                  ELSE Decision("ALLOW",
                           query_analysis.user_role \o " accessing company financial data")
             ELSE Decision("DENY",
                      "Insufficient privileges to access detailed financial information")
        ELSE Decision("ALLOW_WITH_SCREENING",
                 "General query - will be screened for sensitive content")

\* datetime.isoformat(): the text of a time
isoformat(t) == ToString(t)

\* a log_sensitive_query that records str(action) instead of action.value
log_sensitive_query_str_action(flt, query_analysis, rule_result, response_was_filtered, now) ==
    IF ~flt.audit_log_enabled THEN <<>>
    ELSE [timestamp |-> ToString(now),
          user_email |-> query_analysis.user_email,
          user_role |-> query_analysis.user_role,
          query |-> query_analysis.original_query,
          is_financial |-> query_analysis.is_financial,
          is_salary_related |-> query_analysis.is_salary_related,
          target_person |-> query_analysis.target_person,
          action_taken |-> "FilterAction." \o rule_result.action,
          reason |-> rule_result.reason,
          response_filtered |-> response_was_filtered]

\* FinancialContentFilter.log_sensitive_query
log_sensitive_query(flt, query_analysis, rule_result, response_was_filtered, now) ==
    IF ~flt.audit_log_enabled THEN <<>>
    ELSE [timestamp |-> isoformat(now),
          user_email |-> query_analysis.user_email,
          user_role |-> query_analysis.user_role,
          query |-> query_analysis.original_query,
          is_financial |-> query_analysis.is_financial,
          is_salary_related |-> query_analysis.is_salary_related,
          target_person |-> query_analysis.target_person,
          action_taken |-> FilterActionValue(rule_result.action),
          reason |-> rule_result.reason,
          response_filtered |-> response_was_filtered]

\* a process_query that asks for the email check whenever the context is not
\* filtered, and for context filtering under every action but ALLOW
process_query_checking_allowed(flt, f, query, user_email, user_role, outcome, now) ==
    LET Result(query_analysis, rule_result) ==
            [query_analysis |-> query_analysis,
             rule_result |-> rule_result,
             audit_entry |->
                 log_sensitive_query(flt, query_analysis, rule_result, FALSE, now),
             should_filter_context |-> rule_result.action # "ALLOW",
             should_verify_email |->
                 rule_result.action \in {"ALLOW", "ALLOW_WITH_EMAIL_CHECK"}]
        Decided(query_analysis) == Result(query_analysis, determine_action(query_analysis))
        Analyzed(analyzed) ==
            [result |-> Decided(analyzed.analysis),
             filter |-> analyzed.filter,
             backend_calls |-> analyzed.backend_calls]
    IN  Analyzed(analyze_query(flt, f, query, user_email, user_role, outcome, now))

\* FinancialContentFilter.process_query: the dict returned, the filter after the
\* call and the number of backend calls made (f is QueryFacts of the query)
process_query(flt, f, query, user_email, user_role, outcome, now) ==
    LET Result(query_analysis, rule_result) ==
            [query_analysis |-> query_analysis,
             rule_result |-> rule_result,
             audit_entry |->
                 log_sensitive_query(flt, query_analysis, rule_result, FALSE, now),
             should_filter_context |->
                 rule_result.action \in {"DENY", "ALLOW_WITH_REDACTION", "ALLOW_WITH_SCREENING"},
             should_verify_email |-> rule_result.action = "ALLOW_WITH_EMAIL_CHECK"]
        Decided(query_analysis) == Result(query_analysis, determine_action(query_analysis))
        Analyzed(analyzed) ==
            [result |-> Decided(analyzed.analysis),
             filter |-> analyzed.filter,
             backend_calls |-> analyzed.backend_calls]
    IN  Analyzed(analyze_query(flt, f, query, user_email, user_role, outcome, now))

\* dict.get(key) and the truth value of a dict or None
DictGet(d, key) == IF key \in DOMAIN d THEN d[key] ELSE None
DictTruthy(d) == d # None /\ d # <<>>

\* the replacement of the redaction pass
RedactionMarker == "[SALARY INFORMATION REDACTED]"

RECURSIVE FilterSalaryFrom(_, _, _)
\* FinancialContentFilter._filter_salary_from_person_response from the k-th
\* financial pattern on
FilterSalaryFrom(k, filtered_response, was_filtered) ==
    IF k > Len(compiled_financial_patterns)
    THEN [text |-> ToStr(filtered_response), was_filtered |-> was_filtered]
    ELSE IF IMatches(compiled_financial_patterns[k], filtered_response)
    THEN FilterSalaryFrom(k + 1,
             ISub(compiled_financial_patterns[k], Chars(RedactionMarker), filtered_response),
             TRUE)
    ELSE FilterSalaryFrom(k + 1, filtered_response, was_filtered)

\* FinancialContentFilter._filter_salary_from_person_response
filter_salary_from_person_response(response) == FilterSalaryFrom(1, Chars(response), FALSE)

\* the pair (text, was_filtered) filter_response and filter_context return
Filtered(filtered, modified) == [text |-> filtered, was_filtered |-> modified]

\* the message filter_response substitutes for a denied response
RefusalMessage == "I cannot provide that information due to access restrictions."

\* a filter_response that lets a denied response through
filter_response_passing_denied(flt, response, analysis, decision, redacted) ==
    IF decision.action \in {"ALLOW", "ALLOW_WITH_EMAIL_CHECK", "DENY"}
    THEN Filtered(response, FALSE)
    ELSE redacted

\* the methods of class LLMGuardrails
LLMGuardrails_methods ==
    {"__init__", "extract_entities", "_fallback_ner", "validate_content_sensitivity",
     "_fallback_content_validation", "comprehensive_analysis", "_calculate_overall_risk",
     "_get_recommendation", "_get_timestamp", "get_stats"}

\* a guardrails analysis that requires redaction and supplies a pattern for it
GuardrailsSignal ==
    [requires_redaction |-> TRUE, redaction_patterns |-> <<Compile(Str("boston"))>>]

RECURSIVE ApplyPatterns(_, _, _)
\* re.sub(pattern, "[REDACTED]", s, flags=re.IGNORECASE) for the patterns from k on
ApplyPatterns(patterns, k, s) ==
    IF k > Len(patterns) THEN s
    ELSE ApplyPatterns(patterns, k + 1, ISub(patterns[k], Chars("[REDACTED]"), s))

\* FinancialContentFilter._apply_guardrails_redaction
apply_guardrails_redaction(response, guardrails_analysis) ==
    IF "redaction_patterns" \in DOMAIN guardrails_analysis
    THEN ToStr(ApplyPatterns(guardrails_analysis.redaction_patterns, 1, Chars(response)))
    ELSE response

\* FinancialContentFilter.filter_response; redacted is what
\* _filter_salary_from_person_response returns on the response.  LLMGuardrails has
\* no method analyze_response: under ALLOW_WITH_REDACTION the call made when the
\* filter has guardrails raises AttributeError, which the except clause swallows,
\* so the result of the salary redaction is returned either way.
filter_response(flt, response, analysis, decision, redacted) ==
    IF decision.action = "ALLOW" THEN Filtered(response, FALSE)
    ELSE IF decision.action = "DENY" THEN Filtered(RefusalMessage, TRUE)
    ELSE IF decision.action = "ALLOW_WITH_EMAIL_CHECK" THEN Filtered(response, FALSE)
    ELSE IF decision.action = "ALLOW_WITH_REDACTION"
    THEN IF /\ flt.use_guardrails /\ flt.guardrails # None
            /\ "analyze_response" \in LLMGuardrails_methods
            /\ GuardrailsSignal.requires_redaction
         THEN Filtered(apply_guardrails_redaction(redacted.text, GuardrailsSignal), TRUE)
         ELSE redacted
    ELSE IF decision.action = "ALLOW_WITH_SCREENING" THEN redacted
    ELSE Filtered(response, FALSE)

\* a filter_context that lets the context of a denied query through
filter_context_passing_denied(ctx, analysis, decision, redacted) ==
    IF decision.action \in {"ALLOW", "ALLOW_WITH_EMAIL_CHECK", "DENY"}
    THEN Filtered(ctx, FALSE)
    ELSE redacted

\* FinancialContentFilter.filter_context; redacted is what
\* _filter_salary_from_person_response returns on the context
filter_context(ctx, analysis, decision, redacted) ==
    IF decision.action \in {"ALLOW", "ALLOW_WITH_EMAIL_CHECK"} THEN Filtered(ctx, FALSE)
    ELSE IF decision.action = "DENY" THEN Filtered("", TRUE)
    ELSE IF decision.action \in {"ALLOW_WITH_REDACTION", "ALLOW_WITH_SCREENING"}
    THEN redacted
    ELSE Filtered(ctx, FALSE)

(***************************************************************************)
(* AuditLogger (utils/audit_logger.py)                                     *)
(***************************************************************************)

\* AuditLogger(collection_name): db is the collection of documents written
AuditLogger(collection_name) == [collection_name |-> collection_name, db |-> <<>>]

\* AuditLogger.log_sensitive_query: the logger after the call; written says
\* whether the write to the store succeeds
AuditLogger_log_sensitive_query(logger, log_data, now, written) ==
    LET data == IF "timestamp" \in DOMAIN log_data THEN log_data
                ELSE [k \in DOMAIN log_data \cup {"timestamp"} |->
                         IF k = "timestamp" THEN now ELSE log_data[k]]
    IN  IF written THEN [logger EXCEPT !.db = Append(@, data)] ELSE logger

(***************************************************************************)
(* The chat orchestrator (core/app.py) and the state of the model          *)
(***************************************************************************)

VARIABLES
    financial_filter,   \* the FinancialContentFilter of the run
    audit_logger,       \* the AuditLogger of the run
    messages,           \* st.session_state.messages
    pc,                 \* where the handling of the prompt stands
    prompt,             \* the prompt entered
    facts,              \* QueryFacts of the prompt
    redactions,         \* the redaction pass on each text of the run
    user_email,         \* st.session_state.user_info["email"]
    role_str,           \* the role of the user, as a string
    context,            \* the context made of the retrieved documents
    filter_result,      \* what process_query returned
    audit_log,          \* filter_result.get("audit_log")
    backend_calls,      \* calls of the text-generation backend made by the filter
    response,           \* the response shown
    filtered_context,   \* the context after filter_context
    context_filtered,   \* whether filter_context modified the context
    raw_response,       \* the response of the generator
    filtered_response,  \* the response after filter_response
    response_filtered,  \* whether filter_response modified the response
    now,                \* the clock, in hours
    query_analysis,     \* determine_action on its own: its argument
    rule_result,        \* determine_action on its own: its result
    text,               \* the redaction pass on its own: the text
    was_filtered,       \* the redaction pass on its own: the flag of the last pass
    passes,             \* the redaction pass on its own: passes made
    backend_up,         \* analyze_query on its own: the classifier backend answers
    history,            \* analyze_query on its own: the calls made and their analyses
    classifier,         \* concurrent callers: the LLMIntentClassifier they share
    threads,            \* concurrent callers: where each call of classify_intent stands
    query_cache,        \* the cache on its own: the dict of a QueryCache
    last_call           \* the cache on its own: the last call of get or store

generation_vars ==
    <<filtered_context, context_filtered, raw_response, filtered_response, response_filtered>>
orchestrator_vars ==
    <<financial_filter, audit_logger, messages, pc, prompt, facts, redactions, user_email, role_str,
      context, filter_result, audit_log, backend_calls, response, now, generation_vars>>
decision_vars == <<query_analysis, rule_result>>
redaction_vars == <<text, was_filtered, passes>>
analyzer_vars == <<backend_up, history>>
caller_vars == <<classifier, threads>>
cache_vars == <<query_cache, last_call>>

vars ==
    <<orchestrator_vars, decision_vars, redaction_vars, analyzer_vars, caller_vars, cache_vars>>

\* what the orchestrator, determine_action on its own and the redaction pass on
\* its own leave alone
beside_orchestrator ==
    <<decision_vars, redaction_vars, analyzer_vars, caller_vars, cache_vars>>
beside_decision ==
    <<orchestrator_vars, redaction_vars, analyzer_vars, caller_vars, cache_vars>>
beside_redaction ==
    <<orchestrator_vars, decision_vars, analyzer_vars, caller_vars, cache_vars>>

\* the parts of the state at rest
GenerationIdle ==
    /\ filtered_context = ""
    /\ context_filtered = FALSE
    /\ raw_response = ""
    /\ filtered_response = ""
    /\ response_filtered = FALSE
OrchestratorIdle ==
    /\ financial_filter = None
    /\ audit_logger = None
    /\ messages = <<>>
    /\ pc = "off"
    /\ prompt = ""
    /\ facts = None
    /\ redactions = None
    /\ user_email = ""
    /\ role_str = ""
    /\ context = ""
    /\ filter_result = None
    /\ audit_log = None
    /\ backend_calls = 0
    /\ response = ""
    /\ now = 0
    /\ GenerationIdle
DecisionIdle == query_analysis = None /\ rule_result = None
RedactionIdle == text = "" /\ was_filtered = FALSE /\ passes = 0
AnalyzerIdle == backend_up = FALSE /\ history = <<>>
CallersIdle == classifier = None /\ threads = <<>>
CacheIdle == query_cache = <<>> /\ last_call = None
BesideOrchestratorIdle ==
    DecisionIdle /\ RedactionIdle /\ AnalyzerIdle /\ CallersIdle /\ CacheIdle
BesideDecisionIdle ==
    OrchestratorIdle /\ RedactionIdle /\ AnalyzerIdle /\ CallersIdle /\ CacheIdle
BesideRedactionIdle ==
    OrchestratorIdle /\ DecisionIdle /\ AnalyzerIdle /\ CallersIdle /\ CacheIdle

\* the greetings of display_chat_interface
greetings == {"hi", "hello", "hey", "hi there", "hello there"}
IsGreeting(p) == ToStr(Lower(Strip(Chars(p)))) \in greetings

Message(role, content) == [role |-> role, content |-> content]

NoDocsResponse ==
    "I don't have information about that in my knowledge base. Please try a different question or consider uploading relevant documents."
NoDocsNote ==
    "\n\nNote: If you're looking for financial information, please be aware that specific financial figures may be restricted based on your access level and company policy."
ErrorResponse == "I encountered an error while processing your question. Error: search failed"

\* the context built from the documents the search returns
Contexts == {"Document: Payroll\nLisa Park earns $95,000 per year"}

\* the sources of the citation, made of the documents the search returned
doc_sources == <<[title |-> "Payroll", document_type |-> "Policy", relevance |-> 1]>>

\* the texts the generator answers with: one that tells a salary, one that is a
\* failure response
RawResponses ==
    {"Lisa Park is a Senior Consultant in the Boston office and earns $95,000 per year.",
     "I don't have information about that in my knowledge base."}

generic_failure_responses ==
    {"i don't have information about that in my knowledge base",
     "i don't have enough information about that in my knowledge base",
     "i encountered an error"}

GenerationError ==
    "I encountered an error while processing your question. Error: generation failed"
DefaultDenial ==
    "I'm sorry, but you don't have permission to access this information based on your role."
RedactionNote ==
    "\n\nNote: Some specific financial figures have been redacted based on your access level."

\* The application waits for a prompt.  Streamlit runs the script from its top
\* on every interaction, so the filter and the logger that handle a prompt are
\* the ones the module-level set-up constructs once the prompt is submitted.
Init ==
    /\ financial_filter = None
    /\ audit_logger = None
    /\ messages = <<>>
    /\ pc = "idle"
    /\ prompt = ""
    /\ facts = None
    /\ redactions = None
    /\ user_email = ""
    /\ role_str = ""
    /\ context = ""
    /\ filter_result = None
    /\ audit_log = None
    /\ backend_calls = 0
    /\ response = ""
    /\ now = 0
    /\ GenerationIdle
    /\ BesideOrchestratorIdle

\* a prompt is submitted to st.chat_input
Prompt ==
    /\ pc = "idle"
    /\ \E p \in Prompts :
           /\ prompt' = p
           /\ facts' = QueryFacts(Chars(p))
    /\ redactions' = [t \in Contexts \cup RawResponses |-> filter_salary_from_person_response(t)]
    /\ pc' = "submitted"
    /\ UNCHANGED <<financial_filter, audit_logger, messages, user_email, role_str, context,
                   filter_result, audit_log, backend_calls, response, now>>
    /\ UNCHANGED <<generation_vars, beside_orchestrator>>

\* the module-level set-up of the run: the application constructs the filter with
\* audit_log_enabled=True; the other constructions are those open to a caller of
\* FinancialContentFilter
Setup ==
    /\ pc = "submitted"
    /\ \E audit_log_enabled, use_llm_classification, use_guardrails, use_unified_analyzer,
          LLM_AVAILABLE, client_ok \in BOOLEAN :
           financial_filter' =
               FinancialContentFilter(audit_log_enabled, use_llm_classification,
                   use_guardrails, use_unified_analyzer, LLM_AVAILABLE, client_ok)
    /\ audit_logger' = AuditLogger("sensitive_query_logs")
    /\ pc' = "set up"
    /\ UNCHANGED <<messages, prompt, facts, user_email, role_str, context, filter_result,
                   audit_log, backend_calls, response, now>>
    /\ UNCHANGED <<redactions, generation_vars, beside_orchestrator>>

\* display_chat_interface: the prompt is read and added to the messages
ReadPrompt ==
    /\ pc = "set up"
    /\ \E email \in Emails : user_email' = email
    /\ messages' = Append(messages, Message("user", prompt))
    /\ pc' = "prompted"
    /\ UNCHANGED <<financial_filter, audit_logger, prompt, facts, role_str, context,
                   filter_result, audit_log, backend_calls, response, now>>
    /\ UNCHANGED <<redactions, generation_vars, beside_orchestrator>>

\* display_chat_interface: the prompt is a greeting
Greeting ==
    /\ pc = "prompted"
    /\ IsGreeting(prompt)
    /\ response' = "Hello, " \o user_email \o "! How can I help you today?"
    /\ messages' = Append(messages, Message("assistant", response'))
    /\ pc' = "done"
    /\ UNCHANGED <<financial_filter, audit_logger, prompt, facts, user_email, role_str,
                   context, filter_result, audit_log, backend_calls, now>>
    /\ UNCHANGED <<redactions, generation_vars, beside_orchestrator>>

\* display_chat_interface: the role is read and the documents are searched
Retrieve ==
    /\ pc = "prompted"
    /\ ~IsGreeting(prompt)
    /\ \E role \in Roles, found \in {"docs", "no docs", "error"} :
           /\ role_str' = role
           /\ IF found = "docs"
              THEN /\ context' \in Contexts
                   /\ pc' = "retrieved"
                   /\ UNCHANGED <<response, messages>>
              ELSE /\ response' =
                          IF found = "error" THEN ErrorResponse
                          ELSE IF \/ Contains(Lower(Chars(prompt)), Chars("financial"))
                                  \/ Contains(Lower(Chars(prompt)), Chars("revenue"))
                                  \/ Contains(Lower(Chars(prompt)), Chars("salary"))
                          THEN NoDocsResponse \o NoDocsNote
                          ELSE NoDocsResponse
                   /\ messages' = Append(messages, Message("assistant", response'))
                   /\ pc' = "done"
                   /\ UNCHANGED context
    /\ UNCHANGED <<financial_filter, audit_logger, prompt, facts, user_email,
                   filter_result, audit_log, backend_calls, now>>
    /\ UNCHANGED <<redactions, generation_vars, beside_orchestrator>>

\* display_chat_interface: financial_filter.process_query
ProcessQuery ==
    /\ pc = "retrieved"
    /\ \E outcome \in BackendOutcomes :
           \E call \in {process_query(financial_filter, facts, prompt, user_email, role_str,
                                     outcome, now)} :
               /\ filter_result' = call.result
               /\ financial_filter' = call.filter
               /\ backend_calls' = backend_calls + call.backend_calls
    /\ pc' = "processed"
    /\ UNCHANGED <<audit_logger, messages, prompt, facts, user_email, role_str, context,
                   audit_log, response, now>>
    /\ UNCHANGED <<redactions, generation_vars, beside_orchestrator>>

\* display_chat_interface: the audit entry is read from the result and handed to
\* the audit logger
Audit ==
    /\ pc = "processed"
    /\ audit_log' = DictGet(filter_result, "audit_log")
    /\ IF DictTruthy(audit_log')
       THEN \E written \in BOOLEAN :
                audit_logger' =
                    AuditLogger_log_sensitive_query(audit_logger, audit_log', now, written)
       ELSE UNCHANGED audit_logger
    /\ pc' = "audited"
    /\ UNCHANGED <<financial_filter, messages, prompt, facts, user_email, role_str, context,
                   filter_result, backend_calls, response, now>>
    /\ UNCHANGED <<redactions, generation_vars, beside_orchestrator>>

\* display_chat_interface: the citation added to a response
Citations(sources, is_restricted_query, raw) ==
    IF sources # <<>> /\ ~is_restricted_query
       /\ ~(\E phrase \in generic_failure_responses :
                Contains(Lower(Chars(raw)), Chars(phrase)))
       /\ Len(Strip(Chars(raw))) > 50
    THEN "\n\n**Source:** " \o sources[1].title
             \o (IF sources[1].document_type # "" /\ sources[1].document_type # "Document"
                 THEN " (" \o sources[1].document_type \o ")" ELSE "")
    ELSE ""

\* display_chat_interface: the response shown to the user
ShownResponse(decision, filtered, modified, citations) ==
    IF DictGet(decision, "action") = "DENY"
    THEN IF "reason" \in DOMAIN decision THEN decision.reason ELSE DefaultDenial
    ELSE filtered \o (IF modified THEN RedactionNote ELSE "") \o citations

\* display_chat_interface: financial_filter.filter_context on the context
FilterContext ==
    /\ pc = "audited"
    /\ \E r \in {filter_context(context, DictGet(filter_result, "query_analysis"),
                                DictGet(filter_result, "rule_result"),
                                redactions[context])} :
           /\ filtered_context' = r.text
           /\ context_filtered' = r.was_filtered
    /\ pc' = "context filtered"
    /\ UNCHANGED <<financial_filter, audit_logger, messages, prompt, facts, user_email,
                   role_str, context, filter_result, audit_log, backend_calls, response, now>>
    /\ UNCHANGED <<raw_response, filtered_response, response_filtered>>
    /\ UNCHANGED <<redactions, beside_orchestrator>>

\* display_chat_interface: the generator is invoked with the filtered context; it
\* answers, or it raises and the error is shown
Generate ==
    /\ pc = "context filtered"
    /\ \/ /\ raw_response' \in RawResponses
          /\ pc' = "generated"
          /\ UNCHANGED <<response, messages>>
       \/ /\ response' = GenerationError
          /\ messages' = Append(messages, Message("assistant", response'))
          /\ pc' = "done"
          /\ UNCHANGED raw_response
    /\ UNCHANGED <<financial_filter, audit_logger, prompt, facts, user_email, role_str,
                   context, filter_result, audit_log, backend_calls, now>>
    /\ UNCHANGED <<filtered_context, context_filtered, filtered_response, response_filtered>>
    /\ UNCHANGED <<redactions, beside_orchestrator>>

\* display_chat_interface: financial_filter.filter_response on the raw response,
\* then the response is chosen, shown and added to the messages
Respond ==
    /\ pc = "generated"
    /\ \E r \in {filter_response(financial_filter, raw_response,
                                 DictGet(filter_result, "query_analysis"),
                                 DictGet(filter_result, "rule_result"),
                                 redactions[raw_response])} :
           /\ filtered_response' = r.text
           /\ response_filtered' = r.was_filtered
    /\ response' =
           ShownResponse(DictGet(filter_result, "rule_result"), filtered_response',
               response_filtered',
               Citations(doc_sources,
                   DictGet(DictGet(filter_result, "rule_result"), "action") = "DENY",
                   raw_response))
    /\ messages' = Append(messages, Message("assistant", response'))
    /\ pc' = "done"
    /\ UNCHANGED <<financial_filter, audit_logger, prompt, facts, user_email, role_str,
                   context, filter_result, audit_log, backend_calls, now>>
    /\ UNCHANGED <<filtered_context, context_filtered, raw_response>>
    /\ UNCHANGED <<redactions, beside_orchestrator>>

Next ==
    \/ Prompt \/ Setup \/ ReadPrompt \/ Greeting \/ Retrieve \/ ProcessQuery \/ Audit
    \/ FilterContext \/ Generate \/ Respond

Spec == Init /\ [][Next]_vars

(***************************************************************************)
(* determine_action on its own                                             *)
(***************************************************************************)

\* the queries of the analyses: one is a person information query, one is not
DecisionQueries == {"who is Lisa Park", "Q3 revenue"}
\* the four roles in several letter cases, another role and the empty string
DecisionRoles ==
    {"Junior", "junior", "JUNIOR", "Senior", "sEnIoR", "Manager", "manager", "MANAGER",
     "Admin", "admin", "ADMIN", "Guest", ""}

\* every combination of the flags of an analysis
Analyses ==
    [original_query : DecisionQueries,
     is_financial : BOOLEAN,
     is_salary_related : BOOLEAN,
     is_self_data_request : BOOLEAN,
     is_about_person : BOOLEAN,
     is_person_salary_query : BOOLEAN,
     is_aggregate_salary_query : BOOLEAN,
     target_person : {NoneStr, "Lisa Park"},
     is_policy_context : BOOLEAN,
     user_email : Emails,
     user_role : DecisionRoles,
     llm_classification : {None}]

\* a filter without classifier
RegexFilter == FinancialContentFilter(TRUE, FALSE, FALSE, FALSE, FALSE, FALSE)

\* the analyses analyze_query returns for the end-to-end scenario
ScenarioAnalyses ==
    {analyze_query(RegexFilter, QueryFacts(Chars(ScenarioQuery)), ScenarioQuery, email,
                   role, BackendFailure, 0).analysis : email \in Emails, role \in Roles}

InitDA ==
    /\ BesideDecisionIdle
    /\ query_analysis \in Analyses \cup ScenarioAnalyses
    /\ rule_result = None

\* determine_action is called
Decide ==
    /\ rule_result = None
    /\ rule_result' = determine_action(query_analysis)
    /\ UNCHANGED <<query_analysis, beside_decision>>

NextDA == Decide

SpecDA == InitDA /\ [][NextDA]_vars

(***************************************************************************)
(* The redaction pass on its own                                           *)
(***************************************************************************)

\* a text is at most this many of the RedactionTokens
MaxTokens == 2
\* passes made over a text
MaxPasses == 2

RedactionTokens ==
    <<"5k", "$5", " ", "earns 5", "salary: ", "10,000", " dollars", RedactionMarker>>

RECURSIVE TextsOf(_)
\* the texts of n tokens
TextsOf(n) ==
    IF n = 1 THEN {RedactionTokens[i] : i \in 1..Len(RedactionTokens)}
    ELSE {t \o RedactionTokens[i] : t \in TextsOf(n - 1), i \in 1..Len(RedactionTokens)}

Texts == UNION {TextsOf(n) : n \in 1..MaxTokens}

InitRedact ==
    /\ BesideRedactionIdle
    /\ text \in Texts
    /\ was_filtered = FALSE
    /\ passes = 0

\* _filter_salary_from_person_response is applied to the text
Redact ==
    /\ passes < MaxPasses
    /\ \E r \in {filter_salary_from_person_response(text)} :
           /\ text' = r.text
           /\ was_filtered' = r.was_filtered
    /\ passes' = passes + 1
    /\ UNCHANGED beside_redaction

NextRedact == Redact

SpecRedact == InitRedact /\ [][NextRedact]_vars

(***************************************************************************)
(* filter_context and filter_response on their own                         *)
(***************************************************************************)

\* the texts filtered: the empty text, the tokens of the redaction pass, a context
\* and the responses
FilterTexts == {""} \cup TextsOf(1) \cup Contexts \cup RawResponses

\* a decision for each action
FilterDecisions == {Decision(action, "the reason of the decision") : action \in FilterActions}

\* a filter without guardrails and one with guardrails
FilterFilters ==
    {RegexFilter, FinancialContentFilter(TRUE, FALSE, TRUE, FALSE, TRUE, TRUE)}

InitFilter ==
    /\ financial_filter \in FilterFilters
    /\ audit_logger = None
    /\ messages = <<>>
    /\ pc = "texts"
    /\ prompt = ""
    /\ facts = None
    /\ redactions = None
    /\ user_email = ""
    /\ role_str = ""
    /\ \E t \in FilterTexts : context = t /\ raw_response = t
    /\ filter_result = None
    /\ audit_log = None
    /\ backend_calls = 0
    /\ response = ""
    /\ now = 0
    /\ filtered_context = ""
    /\ context_filtered = FALSE
    /\ filtered_response = ""
    /\ response_filtered = FALSE
    /\ query_analysis \in ScenarioAnalyses
    /\ rule_result \in FilterDecisions
    /\ RedactionIdle
    /\ AnalyzerIdle
    /\ CallersIdle
    /\ CacheIdle

\* filter_context is applied to the context
ApplyFilterContext ==
    /\ pc \in {"texts", "response filtered"}
    /\ \E r \in {filter_context(context, query_analysis, rule_result,
                                filter_salary_from_person_response(context))} :
           /\ filtered_context' = r.text
           /\ context_filtered' = r.was_filtered
    /\ pc' = IF pc = "texts" THEN "context filtered" ELSE "both filtered"
    /\ UNCHANGED <<financial_filter, audit_logger, messages, prompt, facts, redactions,
                   user_email, role_str, context, filter_result, audit_log, backend_calls,
                   response, now, raw_response, filtered_response, response_filtered>>
    /\ UNCHANGED <<decision_vars, redaction_vars, analyzer_vars, caller_vars, cache_vars>>

\* filter_response is applied to the response
ApplyFilterResponse ==
    /\ pc \in {"texts", "context filtered"}
    /\ \E r \in {filter_response(financial_filter, raw_response, query_analysis, rule_result,
                                 filter_salary_from_person_response(raw_response))} :
           /\ filtered_response' = r.text
           /\ response_filtered' = r.was_filtered
    /\ pc' = IF pc = "texts" THEN "response filtered" ELSE "both filtered"
    /\ UNCHANGED <<financial_filter, audit_logger, messages, prompt, facts, redactions,
                   user_email, role_str, context, filter_result, audit_log, backend_calls,
                   response, now, raw_response, filtered_context, context_filtered>>
    /\ UNCHANGED <<decision_vars, redaction_vars, analyzer_vars, caller_vars, cache_vars>>

NextFilter == ApplyFilterContext \/ ApplyFilterResponse

SpecFilter == InitFilter /\ [][NextFilter]_vars

(***************************************************************************)
(* analyze_query on its own: one filter, called again and again            *)
(***************************************************************************)

\* calls made to one filter
MaxCalls == 3

\* the queries analysed: a policy query, a financial query, a query about the
\* salary of a person and a query about a person
AnalyzerQueries ==
    {"expense policy", "Q3 revenue", "What is Lisa Park's salary", "who is Lisa Park"}
AnalyzerRoles == {"Junior", "Manager"}

\* what the backend answers when it is up
AnalyzerReplies ==
    {reply \in BackendReplies :
        /\ reply.confidence = 90
        /\ reply.intent \in {"personal_data", "general_info"}
        /\ reply.is_financial_sensitive
        /\ ~reply.is_policy_related}

\* A filter is constructed; the backend of its classifier is up or down for the
\* life of the filter.  facts holds QueryFacts of each query.
InitAQ ==
    /\ \E use_llm_classification, use_guardrails, use_unified_analyzer, LLM_AVAILABLE,
          client_ok \in BOOLEAN :
           financial_filter =
               FinancialContentFilter(TRUE, use_llm_classification, use_guardrails,
                   use_unified_analyzer, LLM_AVAILABLE, client_ok)
    /\ backend_up \in BOOLEAN
    /\ history = <<>>
    /\ facts = [q \in AnalyzerQueries |-> QueryFacts(Chars(q))]
    /\ audit_logger = None
    /\ messages = <<>>
    /\ pc = "off"
    /\ prompt = ""
    /\ redactions = None
    /\ user_email = ""
    /\ role_str = ""
    /\ context = ""
    /\ filter_result = None
    /\ audit_log = None
    /\ backend_calls = 0
    /\ response = ""
    /\ now = 0
    /\ GenerationIdle
    /\ DecisionIdle
    /\ RedactionIdle
    /\ CallersIdle
    /\ CacheIdle

\* analyze_query is called, an hour after the call before
Analyze ==
    /\ Len(history) < MaxCalls
    /\ \E query \in AnalyzerQueries, email \in Emails, role \in AnalyzerRoles,
          outcome \in IF backend_up THEN AnalyzerReplies ELSE {BackendFailure} :
           \E call \in {analyze_query(financial_filter, facts[query], query, email, role,
                                       outcome, now)} :
               /\ history' = Append(history,
                                  [query |-> query, user_email |-> email, user_role |-> role,
                                   analysis |-> call.analysis])
               /\ financial_filter' = call.filter
               /\ backend_calls' = backend_calls + call.backend_calls
    /\ now' = now + 1
    /\ UNCHANGED <<audit_logger, messages, pc, prompt, facts, redactions, user_email,
                   role_str, context, filter_result, audit_log, response, generation_vars>>
    /\ UNCHANGED <<decision_vars, redaction_vars, backend_up, caller_vars, cache_vars>>

NextAQ == Analyze

SpecAQ == InitAQ /\ [][NextAQ]_vars

(***************************************************************************)
(* Concurrent callers of classify_intent that share one classifier         *)
(***************************************************************************)

\* the threads that call classify_intent
NumThreads == 2
Threads == 1..NumThreads
\* calls each thread makes
MaxThreadCalls == 2
\* the clock stops once an entry stored at the start has expired
MaxClock == ttl_hours

CallerQueries == {"Q3 revenue", "What is Lisa Park's salary", "who is Lisa Park"}
\* what the backend does on a call: it fails, or it answers
CallerOutcomes ==
    {BackendFailure} \cup
    {reply \in BackendReplies :
        /\ reply.confidence = 90
        /\ reply.intent = "general_info"
        /\ ~reply.is_financial_sensitive
        /\ ~reply.is_policy_related}

\* a thread that is not inside classify_intent
ThreadIdle ==
    [pc |-> "idle", query |-> "", cached_item |-> None, oldest_key |-> NoneStr,
     classification |-> None, result |-> None, calls |-> 0]

InitCallers ==
    /\ \E client_ok \in BOOLEAN : classifier = LLMIntentClassifier(client_ok)
    /\ threads = [t \in Threads |-> ThreadIdle]
    /\ facts = [q \in CallerQueries |-> QueryFacts(Chars(q))]
    /\ financial_filter = None
    /\ audit_logger = None
    /\ messages = <<>>
    /\ pc = "off"
    /\ prompt = ""
    /\ redactions = None
    /\ user_email = ""
    /\ role_str = ""
    /\ context = ""
    /\ filter_result = None
    /\ audit_log = None
    /\ backend_calls = 0
    /\ response = ""
    /\ now = 0
    /\ GenerationIdle
    /\ DecisionIdle
    /\ RedactionIdle
    /\ AnalyzerIdle
    /\ CacheIdle

\* what a step of a thread leaves alone
beside_callers ==
    <<financial_filter, audit_logger, messages, pc, prompt, facts, redactions, user_email,
      role_str, context, filter_result, audit_log, response, generation_vars,
      decision_vars, redaction_vars, analyzer_vars, cache_vars>>

\* the classifier with one more of a statistic
Counted(clf, statistic) == [clf EXCEPT !.stats[statistic] = @ + 1]

\* a classify_intent whose except clause stores the classification of the fallback
Excepted_storing_fallback(clf, t) ==
    [Counted(clf, "classification_errors") EXCEPT
        !.cache = QueryCache_store(@, threads[t].query,
                                   fallback_classify(facts[threads[t].query]), now)]

\* classify_intent: the except clause counts the error of thread t's call
Excepted(clf, t) == Counted(clf, "classification_errors")

\* classify_intent returns to thread t, with a result or with the fallback's
Returned(t, result) == [threads EXCEPT ![t].pc = "returned", ![t].result = result]
Fallen(t) == Returned(t, fallback_classify(facts[threads[t].query]))

\* thread t calls classify_intent(query)
Call(t) ==
    /\ threads[t].pc \in {"idle", "returned"}
    /\ threads[t].calls < MaxThreadCalls
    /\ \E query \in CallerQueries :
           threads' = [threads EXCEPT ![t] =
                          [ThreadIdle EXCEPT !.pc = "get: in", !.query = query,
                                             !.calls = threads[t].calls + 1]]
    /\ classifier' = Counted(classifier, "total_queries")
    /\ UNCHANGED <<backend_calls, now, beside_callers>>

\* QueryCache.get: if cache_key in self.cache
GetIn(t) ==
    /\ threads[t].pc = "get: in"
    /\ threads' = [threads EXCEPT ![t].pc =
                      IF CacheIndex(classifier.cache, get_cache_key(threads[t].query)) # 0
                      THEN "get: item" ELSE "classify"]
    /\ UNCHANGED <<classifier, backend_calls, now, beside_callers>>

\* QueryCache.get: cached_item = self.cache[cache_key]; a KeyError leaves
\* classify_intent, which calls get outside its try block
GetItem(t) ==
    /\ threads[t].pc = "get: item"
    /\ \E i \in {CacheIndex(classifier.cache, get_cache_key(threads[t].query))} :
           threads' =
               IF i = 0 THEN [threads EXCEPT ![t].pc = "raised"]
               ELSE [threads EXCEPT ![t].pc = "get: ttl",
                                    ![t].cached_item = classifier.cache[i]]
    /\ UNCHANGED <<classifier, backend_calls, now, beside_callers>>

\* QueryCache.get: the expiry test; classify_intent returns a result that has not
\* expired
GetTtl(t) ==
    /\ threads[t].pc = "get: ttl"
    /\ IF now - threads[t].cached_item.timestamp < ttl_hours
       THEN /\ threads' = Returned(t, threads[t].cached_item.classification)
            /\ classifier' = Counted(classifier, "cache_hits")
       ELSE /\ threads' = [threads EXCEPT ![t].pc = "get: del"]
            /\ UNCHANGED classifier
    /\ UNCHANGED <<backend_calls, now, beside_callers>>

\* QueryCache.get: del self.cache[cache_key]
GetDel(t) ==
    /\ threads[t].pc = "get: del"
    /\ \E i \in {CacheIndex(classifier.cache, get_cache_key(threads[t].query))} :
           IF i = 0
           THEN /\ threads' = [threads EXCEPT ![t].pc = "raised"]
                /\ UNCHANGED classifier
           ELSE /\ threads' = [threads EXCEPT ![t].pc = "classify"]
                /\ classifier' = [classifier EXCEPT !.cache = CacheDel(@, i)]
    /\ UNCHANGED <<backend_calls, now, beside_callers>>

\* classify_intent: the backend is called if there is a client, the fallback is
\* returned if there is none or the call fails
Classify(t) ==
    /\ threads[t].pc = "classify"
    /\ IF ~classifier.client
       THEN /\ threads' = Fallen(t)
            /\ classifier' = Counted(classifier, "fallback_calls")
            /\ UNCHANGED backend_calls
       ELSE /\ \E outcome \in CallerOutcomes :
                   IF outcome.ok
                   THEN /\ threads' = [threads EXCEPT ![t].pc = "store: len",
                                           ![t].classification = llm_classify(outcome)]
                        /\ classifier' = Counted(classifier, "llm_calls")
                   ELSE /\ threads' = Fallen(t)
                        /\ classifier' = Excepted(classifier, t)
            /\ backend_calls' = backend_calls + 1
    /\ UNCHANGED <<now, beside_callers>>

\* QueryCache.store: if len(self.cache) >= self.max_size
StoreLen(t) ==
    /\ threads[t].pc = "store: len"
    /\ threads' = [threads EXCEPT ![t].pc =
                      IF Len(classifier.cache) >= max_size THEN "store: min"
                      ELSE "store: set"]
    /\ UNCHANGED <<classifier, backend_calls, now, beside_callers>>

\* QueryCache.store: oldest_key = min(...); the ValueError of an empty cache is
\* caught by classify_intent, which returns its fallback
StoreMin(t) ==
    /\ threads[t].pc = "store: min"
    /\ IF classifier.cache = <<>>
       THEN /\ threads' = Fallen(t)
            /\ classifier' = Excepted(classifier, t)
       ELSE /\ threads' = [threads EXCEPT ![t].pc = "store: del",
                               ![t].oldest_key =
                                   classifier.cache[OldestIndex(classifier.cache)].key]
            /\ UNCHANGED classifier
    /\ UNCHANGED <<backend_calls, now, beside_callers>>

\* QueryCache.store: del self.cache[oldest_key]; the KeyError is caught by
\* classify_intent, which returns its fallback
StoreDel(t) ==
    /\ threads[t].pc = "store: del"
    /\ \E i \in {CacheIndex(classifier.cache, threads[t].oldest_key)} :
           IF i = 0
           THEN /\ threads' = Fallen(t)
                /\ classifier' = Excepted(classifier, t)
           ELSE /\ threads' = [threads EXCEPT ![t].pc = "store: set"]
                /\ classifier' = [classifier EXCEPT !.cache = CacheDel(@, i)]
    /\ UNCHANGED <<backend_calls, now, beside_callers>>

\* QueryCache.store: self.cache[cache_key] = {...}; classify_intent returns the
\* classification
StoreSet(t) ==
    /\ threads[t].pc = "store: set"
    /\ \E item \in {[key |-> get_cache_key(threads[t].query),
                      classification |-> threads[t].classification,
                      timestamp |-> now]} :
           \E i \in {CacheIndex(classifier.cache, item.key)} :
               classifier' =
                   [classifier EXCEPT !.cache =
                       IF i = 0 THEN Append(@, item) ELSE [@ EXCEPT ![i] = item]]
    /\ threads' = Returned(t, threads[t].classification)
    /\ UNCHANGED <<backend_calls, now, beside_callers>>

\* an hour passes
Tick ==
    /\ now < MaxClock
    /\ now' = now + 1
    /\ UNCHANGED <<classifier, threads, backend_calls, beside_callers>>

NextCallers ==
    \/ \E t \in Threads :
           \/ Call(t) \/ GetIn(t) \/ GetItem(t) \/ GetTtl(t) \/ GetDel(t) \/ Classify(t)
           \/ StoreLen(t) \/ StoreMin(t) \/ StoreDel(t) \/ StoreSet(t)
    \/ Tick

SpecCallers == InitCallers /\ [][NextCallers]_vars

(***************************************************************************)
(* The QueryCache on its own, one caller at a time                         *)
(***************************************************************************)

\* queries of three keys: the first two differ in case and in the blanks around them
CacheQueries == {"Q3 revenue", "  q3 REVENUE ", "who is Lisa Park", "salary"}
\* the classifications stored: those of two answers of the backend
CacheClassifications ==
    {llm_classify(reply) :
        reply \in {r \in BackendReplies :
                      /\ r.confidence = 90
                      /\ r.intent \in {"financial_data", "general_info"}
                      /\ ~r.is_financial_sensitive
                      /\ ~r.is_policy_related}}

\* a call of get or store: what it was called with and on, what it returned, and
\* the call made before it
CacheCall(op, query, result) ==
    [op |-> op, query |-> query, result |-> result, before |-> query_cache, at |-> now,
     previous |-> IF last_call = None THEN None
                  ELSE [op |-> last_call.op, query |-> last_call.query,
                        result |-> last_call.result]]

InitCache ==
    /\ query_cache = <<>>
    /\ last_call = None
    /\ financial_filter = None
    /\ audit_logger = None
    /\ messages = <<>>
    /\ pc = "off"
    /\ prompt = ""
    /\ facts = None
    /\ redactions = None
    /\ user_email = ""
    /\ role_str = ""
    /\ context = ""
    /\ filter_result = None
    /\ audit_log = None
    /\ backend_calls = 0
    /\ response = ""
    /\ now = 0
    /\ GenerationIdle
    /\ DecisionIdle
    /\ RedactionIdle
    /\ AnalyzerIdle
    /\ CallersIdle

\* what a call on the cache leaves alone
beside_cache ==
    <<financial_filter, audit_logger, messages, pc, prompt, facts, redactions, user_email,
      role_str, context, filter_result, audit_log, backend_calls, response, generation_vars,
      decision_vars, redaction_vars, analyzer_vars, caller_vars>>

\* QueryCache.get(query)
Get ==
    /\ \E query \in CacheQueries :
           \E got \in {QueryCache_get(query_cache, query, now)} :
               /\ query_cache' = got.cache
               /\ last_call' = CacheCall("get", query, got.result)
    /\ UNCHANGED <<now, beside_cache>>

\* QueryCache.store(query, classification)
Store ==
    /\ \E query \in CacheQueries, classification \in CacheClassifications :
           /\ query_cache' = QueryCache_store(query_cache, query, classification, now)
           /\ last_call' = CacheCall("store", query, classification)
    /\ UNCHANGED <<now, beside_cache>>

\* an hour passes
CacheTick ==
    /\ now < MaxClock
    /\ now' = now + 1
    /\ UNCHANGED <<cache_vars, beside_cache>>

NextCache == Get \/ Store \/ CacheTick

SpecCache == InitCache /\ [][NextCache]_vars

(***************************************************************************)
(* The claims                                                              *)
(***************************************************************************)

\* process_query has returned
Processed == pc \in {"processed", "audited"}
\* determine_action has returned
Decided == rule_result # None
\* the role of an analysis, compared as determine_action compares it
RoleIn(analysis, roles) == lower(analysis.user_role) \in roles

\* C1: for every role and every query that matches an aggregate-salary pattern,
\* process_query returns the action DENY, whatever else the query matches.
C1_AggregateAlwaysDenied ==
    (Processed /\ facts.aggregate) => filter_result.rule_result.action = "DENY"

\* a company-wide financial analysis
CompanyWide(analysis) ==
    /\ analysis.is_financial
    /\ ~analysis.is_policy_context
    /\ ~analysis.is_aggregate_salary_query
    /\ ~analysis.is_self_data_request
    /\ ~analysis.is_person_salary_query
    /\ ~(analysis.is_salary_related /\ analysis.is_about_person)

\* C2 as stated: for a company-wide financial analysis determine_action returns
\* ALLOW for Manager and Admin and DENY for Junior and Senior.
C2_JuniorSeniorDenied ==
    (Decided /\ CompanyWide(query_analysis)) =>
        /\ RoleIn(query_analysis, {"manager", "admin"}) => rule_result.action = "ALLOW"
        /\ RoleIn(query_analysis, {"junior", "senior"}) => rule_result.action = "DENY"

\* C2 amended: for a company-wide financial analysis determine_action returns
\* ALLOW for Manager and Admin and ALLOW_WITH_SCREENING for Junior and Senior.
C2_JuniorSeniorScreened ==
    (Decided /\ CompanyWide(query_analysis)) =>
        /\ RoleIn(query_analysis, {"manager", "admin"}) => rule_result.action = "ALLOW"
        /\ RoleIn(query_analysis, {"junior", "senior"}) =>
               rule_result.action = "ALLOW_WITH_SCREENING"

C2_Witness ==
    /\ Decided
    /\ CompanyWide(query_analysis)
    /\ query_analysis.user_role = "Junior"
    /\ query_analysis.original_query = "Q3 revenue"
    /\ rule_result =
           Decision("ALLOW_WITH_SCREENING", "Junior role - general content screening applied")

\* a person-salary analysis that reaches the role gate
PersonSalary(analysis) ==
    /\ analysis.is_person_salary_query
    /\ analysis.is_financial
    /\ ~analysis.is_policy_context
    /\ ~analysis.is_aggregate_salary_query
    /\ ~analysis.is_self_data_request

\* C3: for every analysis with is_person_salary_query and is_financial true and
\* is_policy_context, is_aggregate_salary_query and is_self_data_request false,
\* determine_action returns ALLOW_WITH_REDACTION for Admin and Manager and DENY for
\* Junior and Senior; the analysis of the end-to-end scenario is such an analysis,
\* about the person Siddarth Bandi, and a Junior gets DENY for it.
C3_PersonSalaryRoleGate ==
    /\ (Decided /\ PersonSalary(query_analysis)) =>
           /\ RoleIn(query_analysis, {"admin", "manager"}) =>
                  rule_result.action = "ALLOW_WITH_REDACTION"
           /\ RoleIn(query_analysis, {"junior", "senior"}) => rule_result.action = "DENY"
    /\ query_analysis # None /\ query_analysis.original_query = ScenarioQuery =>
           /\ PersonSalary(query_analysis)
           /\ query_analysis.is_about_person
           /\ query_analysis.is_salary_related
           /\ query_analysis.target_person = "Siddarth Bandi"

C3_Witness ==
    /\ Decided
    /\ query_analysis.original_query = ScenarioQuery
    /\ query_analysis.user_role = "Junior"
    /\ rule_result =
           Decision("DENY",
               "Insufficient privileges to access Siddarth Bandi's salary information")

\* C4 as stated: for every role, every query that matches a self-reference pattern
\* gets the action ALLOW_WITH_EMAIL_CHECK from process_query.
C4_SelfReferenceDeferred ==
    (Processed /\ facts.self_reference) =>
        filter_result.rule_result.action = "ALLOW_WITH_EMAIL_CHECK"

\* C4 amended: for every role, every query that matches a self-reference pattern
\* and whose analysis is financial, is no policy context and is no aggregate salary
\* query gets the action ALLOW_WITH_EMAIL_CHECK from process_query.
C4_FinancialSelfReferenceDeferred ==
    (/\ Processed
     /\ facts.self_reference
     /\ filter_result.query_analysis.is_financial
     /\ ~filter_result.query_analysis.is_policy_context
     /\ ~filter_result.query_analysis.is_aggregate_salary_query) =>
        /\ filter_result.query_analysis.is_self_data_request
        /\ filter_result.rule_result.action = "ALLOW_WITH_EMAIL_CHECK"
        /\ filter_result.should_verify_email

C4_Witness ==
    /\ pc = "processed"
    /\ prompt = "what's my salary"
    /\ role_str = "Junior"
    /\ facts.self_reference
    /\ financial_filter.use_unified_analyzer
    /\ backend_calls = 1
    /\ filter_result.query_analysis.llm_classification.confidence > ConfidenceThreshold
    /\ filter_result.rule_result.action = "ALLOW_WITH_EMAIL_CHECK"

\* C5: for every role and every query that matches an expense-policy pattern,
\* analyze_query returns is_policy_context true with is_financial and
\* is_salary_related false, returning before the aggregate check, the classifier
\* and the regex analysis (no other flag is set, no person is extracted, no
\* classification is recorded, the backend is not called), and determine_action
\* returns ALLOW.
C5_ExpensePolicyFirst ==
    (Processed /\ facts.expense_policy) =>
        /\ filter_result.query_analysis =
               [NewAnalysis(prompt, user_email, role_str) EXCEPT !.is_policy_context = TRUE]
        /\ backend_calls = 0
        /\ filter_result.rule_result.action = "ALLOW"

C5_Witness ==
    /\ pc = "processed"
    /\ facts.expense_policy
    /\ facts.aggregate
    /\ facts.has_financial_keywords
    /\ financial_filter.use_unified_analyzer
    /\ financial_filter.unified_analyzer.client
    /\ role_str = "Junior"
    /\ filter_result.query_analysis.is_policy_context
    /\ filter_result.rule_result.action = "ALLOW"

\* the action of the first rule that applies, in the eight-step order
FirstRule(analysis) ==
    CASE analysis.is_policy_context -> "ALLOW"
      [] ~analysis.is_policy_context /\ ~analysis.is_financial -> "ALLOW_WITH_SCREENING"
      [] OTHER ->
         CASE analysis.is_aggregate_salary_query -> "DENY"
           [] OTHER ->
              CASE analysis.is_self_data_request -> "ALLOW_WITH_EMAIL_CHECK"
                [] OTHER ->
                   CASE analysis.is_person_salary_query ->
                            IF RoleIn(analysis, {"admin", "manager"})
                            THEN "ALLOW_WITH_REDACTION" ELSE "DENY"
                     [] OTHER ->
                        CASE RoleIn(analysis, {"junior", "senior"}) -> "ALLOW_WITH_SCREENING"
                          [] RoleIn(analysis, {"admin", "manager"}) ->
                                 IF analysis.is_salary_related /\ analysis.is_about_person
                                 THEN "ALLOW_WITH_REDACTION" ELSE "ALLOW"
                          [] OTHER -> "DENY"

\* C6: determine_action is total and deterministic: for every combination of the
\* seven flags and every role string (the four roles in any letter case, any other
\* string, the empty string) it returns one of the five actions, and that action is
\* the action of the first rule that applies in the eight-step order.
C6_FirstRuleWins ==
    Decided =>
        /\ rule_result.action \in FilterActions
        /\ rule_result.action = FirstRule(query_analysis)

C6_Witness ==
    /\ Decided
    /\ query_analysis.user_role = "sEnIoR"
    /\ query_analysis.is_financial
    /\ query_analysis.is_salary_related
    /\ query_analysis.is_about_person
    /\ ~query_analysis.is_person_salary_query
    /\ ~query_analysis.is_policy_context
    /\ ~query_analysis.is_aggregate_salary_query
    /\ ~query_analysis.is_self_data_request
    /\ rule_result.action = "ALLOW_WITH_SCREENING"

\* C7: every analysis returned by analyze_query satisfies is_policy_context = true
\* implies is_financial = false, on every return path.
C7_PolicyContextNotFinancial ==
    Processed =>
        (filter_result.query_analysis.is_policy_context =>
             ~filter_result.query_analysis.is_financial)

\* C8 as stated: every call to process_query, whatever the decision and however the
\* filter was constructed, returns an audit entry whose action_taken is the value of
\* the action of the returned decision.
C8_AuditEntryAlways ==
    Processed =>
        /\ "action_taken" \in DOMAIN filter_result.audit_entry
        /\ filter_result.audit_entry.action_taken = lower(filter_result.rule_result.action)

\* C8 amended: every call to process_query of a filter constructed with
\* audit_log_enabled = true, whatever the decision, returns an audit entry whose
\* action_taken is the value of the action of the returned decision (and whose
\* query, role and reason are those of the call and of the decision); of a filter
\* constructed with audit_log_enabled = false it returns the empty dict.
C8_AuditEntryWhenEnabled ==
    /\ (Processed /\ financial_filter.audit_log_enabled) =>
           /\ "action_taken" \in DOMAIN filter_result.audit_entry
           /\ filter_result.audit_entry.action_taken = lower(filter_result.rule_result.action)
           /\ filter_result.audit_entry.query = prompt
           /\ filter_result.audit_entry.user_role = role_str
           /\ filter_result.audit_entry.reason = filter_result.rule_result.reason
    /\ (Processed /\ ~financial_filter.audit_log_enabled) => filter_result.audit_entry = <<>>

C8_Witness ==
    /\ pc = "processed"
    /\ financial_filter.audit_log_enabled
    /\ filter_result.rule_result.action = "ALLOW"
    /\ filter_result.audit_entry.action_taken = "allow"

\* C9: for every query the orchestrator passes through process_query with the
\* filter the application constructs (audit_log_enabled = true), the audit entry
\* process_query produced is handed to AuditLogger.log_sensitive_query: once the
\* orchestrator is past the hand-off, what it read from the result is that entry
\* and the logger was called with it.
C9_AuditEntryHandedOver ==
    (pc = "audited" /\ financial_filter.audit_log_enabled) =>
        /\ audit_log = filter_result.audit_entry
        /\ DictTruthy(audit_log)

\* C10: the redaction pass is idempotent: applied to its own output it returns
\* that output unchanged and reports no modification.
C10_RedactionIdempotent ==
    [][(passes = 1 /\ passes' = 2) => (text' = text /\ was_filtered' = FALSE)]_vars

\* filter_context, filter_response have been applied to the text
ContextFiltered == pc \in {"context filtered", "both filtered"}
ResponseFiltered == pc \in {"response filtered", "both filtered"}

\* C11: under ALLOW and ALLOW_WITH_EMAIL_CHECK filter_response and filter_context
\* return the text unchanged and not modified; under DENY filter_response returns
\* the fixed refusal message and filter_context the empty string, both modified.
C11_PassThroughAndDeny ==
    /\ (ContextFiltered /\ rule_result.action \in {"ALLOW", "ALLOW_WITH_EMAIL_CHECK"})
           => (filtered_context = context /\ context_filtered = FALSE)
    /\ (ResponseFiltered /\ rule_result.action \in {"ALLOW", "ALLOW_WITH_EMAIL_CHECK"})
           => (filtered_response = raw_response /\ response_filtered = FALSE)
    /\ (ContextFiltered /\ rule_result.action = "DENY")
           => (filtered_context = "" /\ context_filtered = TRUE)
    /\ (ResponseFiltered /\ rule_result.action = "DENY")
           => (/\ filtered_response
                     = "I cannot provide that information due to access restrictions."
               /\ response_filtered = TRUE)

\* a context that tells a salary has been filtered under DENY, and the response
\* made of the same text too
C11_Witness ==
    /\ pc = "both filtered"
    /\ rule_result.action = "DENY"
    /\ context \in Contexts
    /\ filtered_context = ""
    /\ context_filtered
    /\ response_filtered

\* the classifier of the filter cannot answer: there is none, it has no client,
\* or its backend is down
ClassifierUnavailable ==
    \/ ~backend_up
    \/ /\ financial_filter.unified_analyzer # None => ~financial_filter.unified_analyzer.client
       /\ financial_filter.llm_classifier # None => ~financial_filter.llm_classifier.client

SameCall(a, b) ==
    a.query = b.query /\ a.user_email = b.user_email /\ a.user_role = b.user_role

\* C12: with the classifier unavailable, two calls of analyze_query on one filter
\* with the same query, email and role return analyses with identical field
\* values, whatever calls were made in between.
C12_FallbackDeterministic ==
    ClassifierUnavailable =>
        \A i, j \in 1..Len(history) :
            SameCall(history[i], history[j]) => history[i].analysis = history[j].analysis

\* a classifier whose backend is down has analysed a query, then another one, then
\* the first one again, and went to its fallback each time
C12_Witness ==
    /\ ~backend_up
    /\ financial_filter.llm_classifier # None
    /\ financial_filter.llm_classifier.client
    /\ financial_filter.llm_classifier.stats.classification_errors = 3
    /\ Len(history) = 3
    /\ SameCall(history[1], history[3])
    /\ ~SameCall(history[1], history[2])
    /\ history[1].analysis.llm_classification # None

\* the classifier results of the calls made so far
ClassifierResults ==
    {history[i].analysis.llm_classification : i \in 1..Len(history)} \ {None}

\* C13: whenever the call of the backend fails or the client is missing, the
\* classifier (either variant) returns its fallback result, which has confidence
\* 0.7 and one fixed reasoning string that does not depend on the query.
C13_FallbackFixedReasoning ==
    ClassifierUnavailable =>
        \A a, b \in ClassifierResults :
            /\ a.confidence = FallbackConfidence
            /\ a.reasoning = b.reasoning

\* C14: in every result of process_query, should_filter_context is true exactly
\* when the decision is DENY, ALLOW_WITH_REDACTION or ALLOW_WITH_SCREENING and
\* should_verify_email exactly when it is ALLOW_WITH_EMAIL_CHECK; the two are never
\* both true, and both are false exactly for ALLOW.
C14_CallerFlags ==
    filter_result # None =>
        /\ filter_result.should_filter_context
               <=> filter_result.rule_result.action
                      \in {"DENY", "ALLOW_WITH_REDACTION", "ALLOW_WITH_SCREENING"}
        /\ filter_result.should_verify_email
               <=> filter_result.rule_result.action = "ALLOW_WITH_EMAIL_CHECK"
        /\ ~(filter_result.should_filter_context /\ filter_result.should_verify_email)
        /\ (~filter_result.should_filter_context /\ ~filter_result.should_verify_email)
               <=> filter_result.rule_result.action = "ALLOW"

\* process_query has returned the decision ALLOW_WITH_EMAIL_CHECK with
\* should_verify_email and without should_filter_context
C14_Witness ==
    /\ pc = "processed"
    /\ filter_result.rule_result.action = "ALLOW_WITH_EMAIL_CHECK"
    /\ filter_result.should_verify_email
    /\ ~filter_result.should_filter_context

\* the handler has filtered the response of the generator and shown a response
Responded == pc = "done" /\ filter_result # None /\ filtered_response # ""

\* C15: for every query whose decision is DENY, the text the orchestrator shows
\* to the user is the fixed refusal string and never the reason of the decision.
C15_DeniedShowsRefusal ==
    (Responded /\ filter_result.rule_result.action = "DENY") =>
        /\ response = RefusalMessage
        /\ response # filter_result.rule_result.reason
        /\ messages[Len(messages)] = Message("assistant", RefusalMessage)

\* C16: under every interleaving of the steps of get and store made by
\* concurrent calls of classify_intent on one cache, no call raises and the cache
\* never holds more than max_size entries.
C16_CacheSafeForConcurrentCallers ==
    /\ \A t \in Threads : threads[t].pc # "raised"
    /\ Len(classifier.cache) <= max_size

\* C17: every analysis returned by analyze_query has is_person_salary_query equal
\* to the conjunction of is_about_person and is_salary_related, on every return
\* path.
C17_PersonSalaryIsConjunction ==
    Processed =>
        (filter_result.query_analysis.is_person_salary_query
             = (filter_result.query_analysis.is_about_person
                /\ filter_result.query_analysis.is_salary_related))

\* the flags of an analysis
Flags(analysis) ==
    [name \in {"is_policy_context", "is_financial", "is_salary_related", "is_about_person",
               "is_self_data_request", "is_person_salary_query"} |-> analysis[name]]

\* the analysis has a classifier result of a confidence below the threshold
LowConfidence ==
    /\ Processed
    /\ filter_result.query_analysis.llm_classification # None
    /\ filter_result.query_analysis.llm_classification.confidence < ConfidenceThreshold

\* C18: when the classifier returns with a confidence below the threshold, the
\* analysis returned has the same flags as the analysis of the same query by a
\* filter without classifier.
C18_LowConfidenceIsRegexAnalysis ==
    LowConfidence =>
        Flags(filter_result.query_analysis)
            = Flags(analyze_query(RegexFilter, facts, prompt, user_email, role_str,
                                  BackendFailure, now).analysis)

\* analyze_query has returned an analysis that holds a classifier's result
Classified == Processed /\ filter_result.query_analysis.llm_classification # None

\* the analysis as it is when the classifier has returned
ClassifiedAnalysis ==
    IntentFlags(NewAnalysis(prompt, user_email, role_str),
                filter_result.query_analysis.llm_classification)

\* the analysis returned without the regex analysis, and the one of the regex
\* analysis
ShortCircuited ==
    HighConfidence(facts, ClassifiedAnalysis, filter_result.query_analysis.llm_classification)
FallenThrough == RegexAnalysis(facts, ClassifiedAnalysis)

\* C19 as stated: a classifier result of a confidence of 0.8 or more, 0.8 included,
\* is returned without the regex analysis; only a confidence below 0.8 falls through.
C19_ShortCircuitFromThreshold ==
    Classified =>
        filter_result.query_analysis
            = IF filter_result.query_analysis.llm_classification.confidence
                     >= ConfidenceThreshold
              THEN ShortCircuited ELSE FallenThrough

\* C19: a classifier result of a confidence above 0.8 is returned without the regex
\* analysis; a confidence of 0.8 or less, 0.8 included, falls through to it.
C19_ShortCircuitAboveThreshold ==
    Classified =>
        filter_result.query_analysis
            = IF filter_result.query_analysis.llm_classification.confidence
                     > ConfidenceThreshold
              THEN ShortCircuited ELSE FallenThrough

\* a result of confidence 0.8 has fallen through, and the regex analysis shows
C19_Witness ==
    /\ Classified
    /\ filter_result.query_analysis.llm_classification.confidence = ConfidenceThreshold
    /\ filter_result.query_analysis = FallenThrough
    /\ filter_result.query_analysis # ShortCircuited

\* the reasons of the returns that come before the role-based branches
ReasonsBeforeRoles ==
    {"Policy-related query - no financial data filtering needed",
     "Person information query - will be screened for salary content",
     "General query - will be screened for sensitive content",
     "Aggregate salary queries are not permitted for any user role"}

\* C20: determine_action returns for every aggregate salary analysis before its
\* role-based branches; for every combination of flags and every role the DENY of
\* the Junior/Senior carve-out is never returned, and the screening decision of a
\* general query is returned for analyses that are not financial only, never as the
\* final default.
C20_AggregateNeverInRoleBranch ==
    rule_result # None =>
        /\ query_analysis.is_aggregate_salary_query =>
               rule_result.reason \in ReasonsBeforeRoles
        /\ rule_result.reason # "Access to salary information is restricted"
        /\ rule_result.reason = "General query - will be screened for sensitive content" =>
               ~query_analysis.is_financial

\* a Junior's financial aggregate analysis that is also a person-salary analysis
\* has been denied by the aggregate rule
C20_Witness ==
    /\ rule_result # None
    /\ query_analysis.is_aggregate_salary_query
    /\ query_analysis.is_financial
    /\ ~query_analysis.is_policy_context
    /\ query_analysis.is_person_salary_query
    /\ lower(query_analysis.user_role) = "junior"
    /\ rule_result = Decision("DENY",
                          "Aggregate salary queries are not permitted for any user role")

\* the entries and the keys of a cache
Range(seq) == {seq[i] : i \in 1..Len(seq)}
CacheKeys(cache) == {cache[i].key : i \in 1..Len(cache)}

\* C21: used by one caller at a time, a QueryCache holds at most max_size entries
\* after every sequence of get and store.
C21_CacheWithinCapacity == Len(query_cache) <= max_size

\* a store of a new key on a full cache has left the cache full
C21_Witness ==
    /\ last_call # None
    /\ last_call.op = "store"
    /\ Len(last_call.before) = max_size
    /\ Len(query_cache) = max_size
    /\ CacheKeys(query_cache) # CacheKeys(last_call.before)

\* the keys of the queries of the cache, written out
NormalForm ==
    [query \in CacheQueries |->
        CASE query = "Q3 revenue" -> "q3 revenue"
          [] query = "  q3 REVENUE " -> "q3 revenue"
          [] query = "who is Lisa Park" -> "who is lisa park"
          [] query = "salary" -> "salary"]

\* the cache is the cache before the last call without its entry i, then with the
\* item of the call stored under the key of its query
Evicting(i) ==
    LET kept == CacheDel(last_call.before, i)
        item == [key |-> NormalForm[last_call.query],
                 classification |-> last_call.result,
                 timestamp |-> last_call.at]
        at_key == {k \in 1..Len(kept) : kept[k].key = item.key}
    IN  query_cache = IF at_key = {} THEN Append(kept, item)
                      ELSE [k \in 1..Len(kept) |-> IF k \in at_key THEN item ELSE kept[k]]

\* C22: a store on a cache at capacity evicts exactly one entry, one of the earliest
\* timestamp, and a get that returns an entry leaves the cache as it was, its
\* timestamps included.
C22_OldestInsertionFirst ==
    last_call # None =>
        /\ (last_call.op = "store" /\ Len(last_call.before) >= max_size) =>
               \E i \in 1..Len(last_call.before) :
                   /\ \A j \in 1..Len(last_call.before) :
                          last_call.before[i].timestamp <= last_call.before[j].timestamp
                   /\ Evicting(i)
        /\ (last_call.op = "get" /\ last_call.result # None) =>
               query_cache = last_call.before

\* the entry a get has just returned is evicted by the store that follows, while a
\* younger entry that was not read stays
C22_Witness ==
    /\ last_call # None
    /\ last_call.op = "store"
    /\ last_call.previous # None
    /\ last_call.previous.op = "get"
    /\ last_call.previous.result # None
    /\ Len(last_call.before) = max_size
    /\ last_call.before[1].classification = last_call.previous.result
    /\ last_call.before[1].timestamp < last_call.before[2].timestamp
    /\ last_call.before[1].key \notin CacheKeys(query_cache)
    /\ last_call.before[2] \in Range(query_cache)

\* the entries of the cache before the last call that the query of the call
\* normalizes to
EntriesOfQuery ==
    {i \in 1..Len(last_call.before) :
        last_call.before[i].key = NormalForm[last_call.query]}

\* C23: a get returns the stored classification of an entry younger than the
\* time-to-live for every query that normalizes to its key; for an entry whose age
\* has reached the time-to-live it deletes the entry and reports a miss.
C23_GetWithinTtl ==
    (last_call # None /\ last_call.op = "get") =>
        /\ EntriesOfQuery = {} => (last_call.result = None /\ query_cache = last_call.before)
        /\ \A i \in EntriesOfQuery :
               IF last_call.at - last_call.before[i].timestamp < ttl_hours
               THEN /\ last_call.result = last_call.before[i].classification
                    /\ query_cache = last_call.before
               ELSE /\ last_call.result = None
                    /\ query_cache = CacheDel(last_call.before, i)

\* a get of a query that differs in case and blanks from the query stored has
\* returned the classification stored
C23_Witness ==
    /\ last_call # None
    /\ last_call.op = "get"
    /\ last_call.query = "  q3 REVENUE "
    /\ last_call.previous # None
    /\ last_call.previous.op = "store"
    /\ last_call.previous.query = "Q3 revenue"
    /\ last_call.result = last_call.previous.result

\* the prompt is one that analyze_query returns at its expense-policy, safe-policy,
\* aggregate or fast-path check
ReturnsEarly ==
    \/ facts.expense_policy
    \/ facts.has_safe_context /\ ~facts.safe_excluded
    \/ facts.aggregate
    \/ ~facts.has_financial_keywords /\ ~facts.has_financial_patterns

\* C24: one call of analyze_query makes at most one call of the classifier backend,
\* none after a failed one, and none at all for a query that returns at one of the
\* four checks that come before the classifier.
C24_AtMostOneAttempt ==
    [][(pc = "retrieved" /\ pc' = "processed") =>
           /\ backend_calls' - backend_calls \in {0, 1}
           /\ ReturnsEarly => backend_calls' = backend_calls]_vars

\* the one call of the backend has failed and the fallback's result is in the
\* analysis
C24_Witness ==
    /\ pc = "processed"
    /\ ~ReturnsEarly
    /\ backend_calls = 1
    /\ filter_result.query_analysis.llm_classification # None
    /\ filter_result.query_analysis.llm_classification.reasoning # "reasoning of the reply"

\* C25: under ALLOW_WITH_REDACTION on a filter with guardrails, when the guardrails
\* analysis requires redaction and supplies patterns, the response returned is the
\* pattern-redacted response with the patterns of the analysis substituted in a
\* second pass, and it is reported as modified.
C25_GuardrailsSecondPass ==
    (/\ ResponseFiltered
     /\ rule_result.action = "ALLOW_WITH_REDACTION"
     /\ financial_filter.use_guardrails
     /\ financial_filter.guardrails # None
     /\ GuardrailsSignal.requires_redaction
     /\ GuardrailsSignal.redaction_patterns # <<>>) =>
        /\ response_filtered
        /\ filtered_response
               = apply_guardrails_redaction(
                     filter_salary_from_person_response(raw_response).text, GuardrailsSignal)

\* C26: a query with a safe-policy keyword and a salary keyword of the regex
\* analysis is not returned as policy context by the safe-policy rule of
\* analyze_query (the expense-policy rule and the classifiers aside).
C26_SafePolicyNotForSalary ==
    (/\ Processed
     /\ facts.has_safe_context
     /\ facts.regex_salary_keyword
     /\ ~facts.expense_policy
     /\ filter_result.query_analysis.llm_classification = None) =>
        /\ ~filter_result.query_analysis.is_policy_context
        /\ filter_result.rule_result.action # "ALLOW"

\* C27: for a Junior or a Senior, an analysis returned by analyze_query that is
\* about a person and salary related, and neither policy context nor a self-data
\* request nor an aggregate salary query, is denied.
C27_IndividualPayDeniedToJuniorSenior ==
    (/\ Processed
     /\ role_str \in {"Junior", "Senior"}
     /\ filter_result.query_analysis.is_about_person
     /\ filter_result.query_analysis.is_salary_related
     /\ ~filter_result.query_analysis.is_policy_context
     /\ ~filter_result.query_analysis.is_self_data_request
     /\ ~filter_result.query_analysis.is_aggregate_salary_query) =>
        filter_result.rule_result.action = "DENY"

\* the analysis returned is a person-salary analysis for a Junior or a Senior
PersonSalaryForJuniorSenior ==
    /\ filter_result # None
    /\ pc \in {"processed", "audited", "context filtered", "generated"}
    /\ role_str \in {"Junior", "Senior"}
    /\ filter_result.query_analysis.is_person_salary_query

AdminOrManager == lower(query_analysis.user_role) \in {"admin", "manager"}
KnownRole == lower(query_analysis.user_role) \in {"junior", "senior", "manager", "admin"}

\* C29: determine_action returns ALLOW only for policy context or for an admin or a
\* manager, ALLOW_WITH_REDACTION only for an admin or a manager, and DENY for every
\* financial analysis of a role outside the four roles that is not policy context,
\* aggregate or a self-data request.
C29_FailClosedOnRole ==
    rule_result # None =>
        /\ rule_result.action = "ALLOW" =>
               (query_analysis.is_policy_context \/ AdminOrManager)
        /\ rule_result.action = "ALLOW_WITH_REDACTION" => AdminOrManager
        /\ (/\ ~KnownRole
            /\ query_analysis.is_financial
            /\ ~query_analysis.is_policy_context
            /\ ~query_analysis.is_aggregate_salary_query
            /\ ~query_analysis.is_self_data_request) =>
               rule_result.action = "DENY"

\* a financial analysis with the empty role, about no person, has been denied
C29_Witness ==
    /\ rule_result # None
    /\ query_analysis.user_role = ""
    /\ query_analysis.is_financial
    /\ ~query_analysis.is_policy_context
    /\ ~query_analysis.is_aggregate_salary_query
    /\ ~query_analysis.is_self_data_request
    /\ ~query_analysis.is_person_salary_query
    /\ rule_result.action = "DENY"

\* the classifications of the answers of the backend
AnsweredClassifications == {llm_classify(reply) : reply \in {o \in CallerOutcomes : o.ok}}

\* C30: after any calls of classify_intent, with any mix of answers and failures
\* of the backend, every entry of the cache is the classification of an answer of
\* the backend, never one of the rule-based fallback.
C30_FallbackNeverCached ==
    \A i \in 1..Len(classifier.cache) :
        classifier.cache[i].classification \in AnsweredClassifications

\* a call has returned the fallback's classification after a failure of the
\* backend, the cache holding an answer stored by another call, and nothing for
\* the query of the failed call
C30_Witness ==
    /\ classifier.stats.classification_errors > 0
    /\ classifier.cache # <<>>
    /\ \E t \in Threads :
           /\ threads[t].pc = "returned"
           /\ threads[t].result = fallback_classify(facts[threads[t].query])
           /\ CacheIndex(classifier.cache, get_cache_key(threads[t].query)) = 0

====
